---------------------------- MODULE Spec2Model ----------------------------
(***************************************************************************)
(* Format detection and normalisation of apartment real-transaction        *)
(* tables (data_transformer.py, region_code_mapper.py) and the dashboard's *)
(* preprocessing of them (app.py).                                         *)
(*                                                                         *)
(* A table is a pandas DataFrame as pd.read_excel returns it: a set of     *)
(* column labels and a sequence of rows under the default RangeIndex, so   *)
(* that column assignment is positional.  A cell holds a Python value.     *)
(*                                                                         *)
(* Strings of the source that are written in Hangul are romanised here,    *)
(* because the tools accept ASCII string literals only:                    *)
(*   시군구 sigungu, 단지명 danjimyeong, 거래금액(만원) georaegeumaek(manwon), *)
(*   전용면적(㎡) jeonyongmyeonjeok(m2), 계약년월 gyeyaknyeonwol,            *)
(*   계약일 gyeyakil, 층 cheung, 건축년도 geonchuknyeondo,                   *)
(*   해제사유발생일 haejesayubalsaengil, 서울특별시 Seoul, 불광동 Bulgwang-dong *)
(*   계약일_str gyeyakil_str, 거래일자 georaeilja, 평수 pyeongsu,            *)
(*   평당가(만원) pyeongdangga(manwon)                                      *)
(***************************************************************************)
EXTENDS Integers, Sequences, FiniteSets, TLC

VARIABLES
    df,         \* the table handed to the core by the caller
    op,         \* the operation that ran last on df ("none" before any)
    result,     \* what that operation returned or raised
    warnings,   \* the warnings.warn calls that operation made, in order
    prev,       \* the previous detect_format call: its columns and outcome
    region_map, \* the module-level dict REGION_CODE_MAP as it is now
    returned,   \* the mapping a get_all_region_codes caller holds
    session,    \* st.session_state: the 'cancelled_count' entry
    arg,        \* the value df had when the last operation was called
    memo,       \* the first transform_to_legacy call: its table and output
    cache       \* what st.cache_data keeps of load_data_from_path, by path

vars == <<df, op, result, warnings, prev, region_map, returned, session, arg,
          memo, cache>>

\* The variables the registry, the session, the cache and the call history
\* live in
rest == <<region_map, returned, session, arg, memo, cache>>

(***************************************************************************)
(* Python values.  Every value is a record of the same shape:              *)
(*   str    s = the text                                                   *)
(*   int    n = the number                                                 *)
(*   float  n = the integral part, s = the digits after the point, with a  *)
(*          "-" before them for a float below zero and for -0.0; the       *)
(*          digits end in no zero other than a single "0"                  *)
(*   nan    float('nan'), what an empty spreadsheet cell loads as          *)
(*   inf    float('inf'), s = "-" for -inf                                 *)
(*   none   None                                                           *)
(* Integers and integral parts stay within 32 bits, and a float is the     *)
(* decimal its digits write (15 significant digits tell doubles apart).    *)
(***************************************************************************)
StrV(x) == [t |-> "str", s |-> x, n |-> 0]

IntV(x) == [t |-> "int", s |-> "", n |-> x]

FloatV(x, frac) == [t |-> "float", s |-> frac, n |-> x]

NegFloatV(x, frac) == [t |-> "float", s |-> "-" \o frac, n |-> 0 - x]

\* float(n) for an integer n
py_float(n) == IF n < 0 THEN NegFloatV(0 - n, "0") ELSE FloatV(n, "0")

Inf == [t |-> "inf", s |-> "", n |-> 0]

NegInf == [t |-> "inf", s |-> "-", n |-> 0]

NaN == [t |-> "nan", s |-> "", n |-> 0]

None == [t |-> "none", s |-> "", n |-> 0]

Digits == {"0", "1", "2", "3", "4", "5", "6", "7", "8", "9"}

DigitChar == <<"0", "1", "2", "3", "4", "5", "6", "7", "8", "9">>

DigitVal(c) == CHOOSE d \in 0..9 : DigitChar[d + 1] = c

\* The characters str.strip() takes for whitespace in an ASCII text: blank,
\* tab, line feed, vertical tab, form feed, carriage return and the four
\* separators 0x1c to 0x1f (the last five stand in the literals as they
\* are).  The texts here are ASCII; the spaces of Unicode do not occur.
WhiteSpace ==
    {" ", "\t", "\n", "", "\f", "\r", "", "", "", ""}

\* The characters int() and the parser of pd.to_numeric skip around a
\* number: blank and 0x09 to 0x0d.  The separators 0x1c to 0x1f are not
\* among them.
IntSpace == {" ", "\t", "\n", "", "\f", "\r"}

\* str(n) for an integer n
RECURSIVE NatToStr(_)
NatToStr(n) ==
    IF n < 10 THEN DigitChar[n + 1]
    ELSE NatToStr(n \div 10) \o DigitChar[(n % 10) + 1]

IntToStr(n) == IF n < 0 THEN "-" \o NatToStr(0 - n) ELSE NatToStr(n)

\* The digits after the point of a float
FracDigits(v) == IF Head(v.s) = "-" THEN Tail(v.s) ELSE v.s

\* s without the zeros it starts with
RECURSIVE LStripZeros(_)
LStripZeros(s) ==
    IF Len(s) > 0 /\ Head(s) = "0" THEN LStripZeros(Tail(s)) ELSE s

\* s without the zeros it ends with
RECURSIVE RStripZeros(_)
RStripZeros(s) ==
    IF Len(s) > 0 /\ SubSeq(s, Len(s), Len(s)) = "0"
    THEN RStripZeros(SubSeq(s, 1, Len(s) - 1)) ELSE s

\* repr(x) of a float: the shortest digits, in exponent notation below 1e-4
\* (1e16 and more is beyond the integral parts held here)
float_repr(v) ==
    LET sign == IF Head(v.s) = "-" THEN "-" ELSE ""
        whole == IF v.n < 0 THEN 0 - v.n ELSE v.n
        frac == FracDigits(v)
        sig == LStripZeros(frac)
        exp == Len(frac) - Len(sig) + 1
    IN  IF whole = 0 /\ exp > 4 /\ sig # ""
        THEN sign \o Head(sig)
             \o (IF Len(sig) > 1 THEN "." \o Tail(sig) ELSE "")
             \o "e-" \o (IF exp < 10 THEN "0" ELSE "") \o NatToStr(exp)
        ELSE sign \o NatToStr(whole) \o "." \o frac

\* str(value)
py_str(v) ==
    CASE v.t = "str" -> v.s
      [] v.t = "int" -> IntToStr(v.n)
      [] v.t = "float" -> float_repr(v)
      [] v.t = "nan" -> "nan"
      [] v.t = "inf" -> v.s \o "inf"
      [] v.t = "none" -> "None"

\* s.lstrip(), s.rstrip(), s.strip()
RECURSIVE py_lstrip(_)
py_lstrip(s) ==
    IF Len(s) > 0 /\ Head(s) \in WhiteSpace THEN py_lstrip(Tail(s)) ELSE s

RECURSIVE py_rstrip(_)
py_rstrip(s) ==
    IF Len(s) > 0 /\ SubSeq(s, Len(s), Len(s)) \in WhiteSpace
    THEN py_rstrip(SubSeq(s, 1, Len(s) - 1))
    ELSE s

py_strip(s) == py_rstrip(py_lstrip(s))

\* s without the characters of chars at its two ends
RECURSIVE strip_of(_, _)
strip_of(s, chars) ==
    IF Len(s) > 0 /\ Head(s) \in chars THEN strip_of(Tail(s), chars)
    ELSE IF Len(s) > 0 /\ SubSeq(s, Len(s), Len(s)) \in chars
    THEN strip_of(SubSeq(s, 1, Len(s) - 1), chars)
    ELSE s

\* s.replace(c, "") for a one-character c
RECURSIVE py_remove(_, _)
py_remove(s, c) ==
    IF Len(s) = 0 THEN ""
    ELSE (IF Head(s) = c THEN "" ELSE Head(s)) \o py_remove(Tail(s), c)

\* c in s
RECURSIVE py_contains(_, _)
py_contains(s, c) ==
    IF Len(s) = 0 THEN FALSE
    ELSE Head(s) = c \/ py_contains(Tail(s), c)

\* s.split(c)[0]: the text before the first c (all of s when there is none)
RECURSIVE py_before(_, _)
py_before(s, c) ==
    IF Len(s) = 0 \/ Head(s) = c THEN ""
    ELSE Head(s) \o py_before(Tail(s), c)

\* the text after the first c ("" when there is none)
RECURSIVE py_after(_, _)
py_after(s, c) ==
    IF Len(s) = 0 THEN ""
    ELSE IF Head(s) = c THEN Tail(s)
    ELSE py_after(Tail(s), c)

\* The digits of an int() literal: digits, single underscores between them.
RECURSIVE IsIntBody(_, _)
IsIntBody(s, afterDigit) ==
    IF Len(s) = 0 THEN afterDigit
    ELSE IF Head(s) \in Digits THEN IsIntBody(Tail(s), TRUE)
    ELSE IF Head(s) = "_" THEN afterDigit /\ Len(s) > 1
                               /\ SubSeq(s, 2, 2) \in Digits
                               /\ IsIntBody(Tail(s), FALSE)
    ELSE FALSE

RECURSIVE IntBodyVal(_, _)
IntBodyVal(s, acc) ==
    IF Len(s) = 0 THEN acc
    ELSE IF Head(s) = "_" THEN IntBodyVal(Tail(s), acc)
    ELSE IntBodyVal(Tail(s), acc * 10 + DigitVal(Head(s)))

Ok(x) == [ok |-> TRUE, exc |-> "", n |-> x]

Raise(e) == [ok |-> FALSE, exc |-> e, n |-> 0]

\* int(s) for a string: the whitespace of int() around it and a sign are
\* accepted
py_int_str(s) ==
    LET body == strip_of(s, IntSpace)
        signed == Len(body) > 0 /\ Head(body) \in {"+", "-"}
        digits == IF signed THEN Tail(body) ELSE body
    IN  IF Len(digits) > 0 /\ IsIntBody(digits, FALSE)
        THEN Ok(IF signed /\ Head(body) = "-"
                THEN 0 - IntBodyVal(digits, 0)
                ELSE IntBodyVal(digits, 0))
        ELSE Raise("ValueError")

\* int(value): a float is truncated, nan is a ValueError, inf an
\* OverflowError, None a TypeError
py_int(v) ==
    CASE v.t = "int" -> Ok(v.n)
      [] v.t = "float" -> Ok(v.n)
      [] v.t = "str" -> py_int_str(v.s)
      [] v.t = "nan" -> Raise("ValueError")
      [] v.t = "inf" -> Raise("OverflowError")
      [] v.t = "none" -> Raise("TypeError")

\* bool(value), as in `if value`
py_truthy(v) ==
    CASE v.t = "str" -> v.s # ""
      [] v.t = "int" -> v.n # 0
      [] v.t = "float" -> ~(v.n = 0 /\ py_remove(FracDigits(v), "0") = "")
      [] v.t \in {"nan", "inf"} -> TRUE
      [] v.t = "none" -> FALSE

\* Whether a number is below zero (-0.0 counts), and whether it is zero
Negative(v) ==
    CASE v.t = "int" -> v.n < 0
      [] v.t = "float" -> Head(v.s) = "-"
      [] v.t = "inf" -> v.s = "-"
      [] v.t = "quotient" -> v.n < 0
      [] OTHER -> FALSE

IsZero(v) ==
    \/ v.t = "int" /\ v.n = 0
    \/ v.t = "float" /\ v.n = 0 /\ py_remove(FracDigits(v), "0") = ""

\* 0.x < 0.y for the digits x and y, neither ending in a zero
RECURSIVE frac_lt(_, _)
frac_lt(x, y) ==
    IF Len(y) = 0 THEN FALSE
    ELSE IF Len(x) = 0 THEN TRUE
    ELSE IF Head(x) = Head(y) THEN frac_lt(Tail(x), Tail(y))
    ELSE DigitVal(Head(x)) < DigitVal(Head(y))

\* abs(a) < abs(b) for two numbers that are not nan: the integral parts
\* decide, then the digits after the point
abs_lt(a, b) ==
    LET Whole(v) == IF v.n < 0 THEN 0 - v.n ELSE v.n
        Decimals(v) ==
            IF v.t = "float" THEN RStripZeros(FracDigits(v)) ELSE ""
    IN  IF a.t = "inf" THEN FALSE
        ELSE IF b.t = "inf" THEN TRUE
        ELSE \/ Whole(a) < Whole(b)
             \/ Whole(a) = Whole(b) /\ frac_lt(Decimals(a), Decimals(b))

\* a < b for two numbers (int, float, inf, nan): an int and a float compare
\* by value, -0.0 equals 0.0, every comparison with nan is False
num_lt(a, b) ==
    IF a.t = "nan" \/ b.t = "nan" THEN FALSE
    ELSE IF (Negative(a) /\ ~IsZero(a)) # (Negative(b) /\ ~IsZero(b))
        THEN Negative(a) /\ ~IsZero(a)
    ELSE IF Negative(a) /\ ~IsZero(a) THEN abs_lt(b, a)
    ELSE abs_lt(a, b)

\* pd.isna(value), pd.notna(value) for a scalar
pd_isna(v) == v.t \in {"nan", "none"}

pd_notna(v) == ~pd_isna(v)

(***************************************************************************)
(* region_code_mapper.py                                                   *)
(***************************************************************************)
\* Seoul's 25 districts; "Seoul X-gu" stands for "서울특별시 X구".
REGION_CODE_MAP ==
    ("11110" :> "Seoul Jongno-gu") @@ ("11140" :> "Seoul Jung-gu") @@
    ("11170" :> "Seoul Yongsan-gu") @@ ("11200" :> "Seoul Seongdong-gu") @@
    ("11215" :> "Seoul Gwangjin-gu") @@ ("11230" :> "Seoul Dongdaemun-gu") @@
    ("11260" :> "Seoul Jungnang-gu") @@ ("11290" :> "Seoul Seongbuk-gu") @@
    ("11305" :> "Seoul Gangbuk-gu") @@ ("11320" :> "Seoul Dobong-gu") @@
    ("11350" :> "Seoul Nowon-gu") @@ ("11380" :> "Seoul Eunpyeong-gu") @@
    ("11410" :> "Seoul Seodaemun-gu") @@ ("11440" :> "Seoul Mapo-gu") @@
    ("11470" :> "Seoul Yangcheon-gu") @@ ("11500" :> "Seoul Gangseo-gu") @@
    ("11530" :> "Seoul Guro-gu") @@ ("11545" :> "Seoul Geumcheon-gu") @@
    ("11560" :> "Seoul Yeongdeungpo-gu") @@ ("11590" :> "Seoul Dongjak-gu") @@
    ("11620" :> "Seoul Gwanak-gu") @@ ("11650" :> "Seoul Seocho-gu") @@
    ("11680" :> "Seoul Gangnam-gu") @@ ("11710" :> "Seoul Songpa-gu") @@
    ("11740" :> "Seoul Gangdong-gu")

\* A warnings.warn call: which statement made it, the value its message
\* names, and (bookkeeping, not part of the message) the row being processed.
Warning(kind, text, row) == [kind |-> kind, text |-> text, row |-> row]

\* code_str of get_sigungu_name and is_valid_region_code: str(code).strip(),
\* cut at the first "."
code_str(code) ==
    LET stripped == py_strip(py_str(code))
    IN  IF py_contains(stripped, ".") THEN py_before(stripped, ".")
        ELSE stripped

\* get_sigungu_name(code) while row `row` is processed: the name returned and
\* the warnings emitted
get_sigungu_name(code, row) ==
    IF code.t = "none" THEN [name |-> "", warn |-> <<>>]
    ELSE IF code_str(code) \in DOMAIN region_map
         THEN [name |-> region_map[code_str(code)], warn |-> <<>>]
         ELSE [name |-> code_str(code),
               warn |-> <<Warning("region_code", code_str(code), row)>>]

(***************************************************************************)
(* data_transformer.py: column labels                                      *)
(***************************************************************************)
Label(names) == {StrV(x) : x \in names}

NEW_API_COLUMNS ==
    Label({"sggCd", "umdNm", "aptNm", "excluUseAr", "dealYear", "dealMonth",
           "dealDay", "dealAmount", "floor", "buildYear", "cdealDay"})

LEGACY_COLUMNS ==
    Label({"NO", "sigungu", "danjimyeong", "jeonyongmyeonjeok(m2)",
           "gyeyaknyeonwol", "gyeyakil", "georaegeumaek(manwon)", "cheung",
           "geonchuknyeondo", "haejesayubalsaengil"})

\* (mutant) the legacy signature asks for a column the normalisation does
\* not make
legacy_indicators_wide ==
    Label({"sigungu", "danjimyeong", "georaegeumaek(manwon)", "pyeongsu"})

legacy_indicators == Label({"sigungu", "danjimyeong", "georaegeumaek(manwon)"})

\* (mutant) one column too many in the new-API signature
new_api_indicators_wide == Label({"sggCd", "aptNm", "dealAmount", "umdNm"})

new_api_indicators == Label({"sggCd", "aptNm", "dealAmount"})

required_columns ==
    <<"sggCd", "aptNm", "excluUseAr", "dealYear", "dealMonth", "dealDay",
      "dealAmount", "floor", "buildYear">>

\* A header cell that is not text: pd.read_excel keeps the number 2024 of a
\* numeric header cell as an integer column label.
OtherLabels == {StrV("Unnamed: 0"), IntV(2024)}

\* The characters of ASCII the texts here hold, in the order of their code
\* points: the whitespace of str.strip() and the printable characters (the
\* grave accent, between _ and a, cannot be written)
Ascii ==
    "\t\n\f\r !\"#$%&'()*+,-./0123456789:;<=>?@ABCDEFGHIJKLMNOPQRSTUVWXYZ[\\]^_"
    \o "abcdefghijklmnopqrstuvwxyz{|}~"

CharRank(c) == CHOOSE i \in 1..Len(Ascii) : SubSeq(Ascii, i, i) = c

\* The romanised Hangul labels in the order of the code points of the Hangul
\* they stand for: 거래금액(만원) < 거래일자 < 건축년도 < 계약년월 < 계약일 <
\* 계약일_str < 단지명 < 시군구 < 전용면적(㎡) < 층 < 평당가(만원) < 평수 <
\* 해제사유발생일.  Every one of them comes after every ASCII text.
HangulOrder ==
    <<"georaegeumaek(manwon)", "georaeilja", "geonchuknyeondo",
      "gyeyaknyeonwol", "gyeyakil", "gyeyakil_str", "danjimyeong", "sigungu",
      "jeonyongmyeonjeok(m2)", "cheung", "pyeongdangga(manwon)", "pyeongsu",
      "haejesayubalsaengil">>

IsHangul(x) == \E i \in 1..Len(HangulOrder) : HangulOrder[i] = x

HangulRank(x) == CHOOSE i \in 1..Len(HangulOrder) : HangulOrder[i] = x

\* a <= b for two ASCII texts, character by character
RECURSIVE AsciiLeq(_, _)
AsciiLeq(a, b) ==
    IF Len(a) = 0 THEN TRUE
    ELSE IF Len(b) = 0 THEN FALSE
    ELSE IF Head(a) = Head(b) THEN AsciiLeq(Tail(a), Tail(b))
    ELSE CharRank(Head(a)) < CharRank(Head(b))

\* a <= b for two str
str_leq(a, b) ==
    IF IsHangul(a) /\ IsHangul(b) THEN HangulRank(a) <= HangulRank(b)
    ELSE IF IsHangul(a) THEN FALSE
    ELSE IF IsHangul(b) THEN TRUE
    ELSE AsciiLeq(a, b)

\* The labels that compare with one another: texts with texts, numbers with
\* numbers; None compares with nothing
Comparable(v) ==
    CASE v.t = "str" -> "str"
      [] v.t \in {"int", "float", "inf", "nan"} -> "number"
      [] v.t = "none" -> "none"

\* a <= b for two labels that compare
label_leq(a, b) ==
    IF a.t = "str" THEN str_leq(a.s, b.s)
    ELSE a.t # "nan" /\ b.t # "nan" /\ ~num_lt(b, a)

\* The labels of S from the least on, S holding labels that compare and no
\* nan.  (A Python set holds one of two labels that are equal, 1 and 1.0.)
RECURSIVE SortedLabels(_)
SortedLabels(S) ==
    IF S = {} THEN <<>>
    ELSE LET least == CHOOSE x \in S : \A y \in S : label_leq(x, y)
         IN  <<least>> \o SortedLabels(S \ {least})

\* Every order the labels of S can be listed in
Arrangements(S) ==
    {q \in [1..Cardinality(S) -> S] : \A x \in S : \E i \in DOMAIN q : q[i] = x}

\* sorted(columns): a TypeError when two labels that do not compare are
\* among them; otherwise `seqs` holds the lists sorted() may return.  That is
\* the one list in ascending order, unless nan is among the labels: nan is
\* below and above nothing, the list then depends on the order the set is
\* iterated in, and any order is allowed for (the one list [nan] when nan is
\* the only label).
py_sorted(columns) ==
    IF \E a, b \in columns : Comparable(a) # Comparable(b)
    THEN [ok |-> FALSE, seqs |-> {}]
    ELSE IF NaN \in columns
    THEN [ok |-> TRUE, seqs |-> Arrangements(columns)]
    ELSE [ok |-> TRUE, seqs |-> {SortedLabels(columns)}]

MaxShown == 10

Returned(x) == [kind |-> "return", value |-> x, shown |-> <<>>, more |-> 0]

Raised(e, shown, more) ==
    [kind |-> "raise", value |-> e, shown |-> shown, more |-> more]

\* The exception of detect_format's last statements: the ValueError carries
\* the first MaxShown sorted labels and the count of the others; sorted()
\* or ", ".join raises a TypeError on a label that is not a string.
unknown_format(columns) ==
    LET srt == py_sorted(columns)
        seq == CHOOSE q \in srt.seqs : TRUE
    IN  IF ~srt.ok \/ \E c \in columns : c.t # "str"
        THEN Raised("TypeError", <<>>, 0)
        ELSE Raised("ValueError",
                    [i \in 1..(IF Len(seq) < MaxShown
                               THEN Len(seq) ELSE MaxShown) |->
                        seq[i].s],
                    IF Cardinality(columns) > MaxShown
                    THEN Cardinality(columns) - MaxShown ELSE 0)

\* (mutant) the new-API signature is tested before the legacy one
detect_format_new_first(columns) ==
    IF new_api_indicators \subseteq columns THEN Returned("new")
    ELSE IF legacy_indicators \subseteq columns THEN Returned("old")
    ELSE unknown_format(columns)

\* The body of detect_format on columns = set(df.columns)
detect_format_columns(columns) ==
    IF legacy_indicators \subseteq columns THEN Returned("old")
    ELSE IF new_api_indicators \subseteq columns THEN Returned("new")
    ELSE unknown_format(columns)

\* (mutant) a table without rows is not classified: the rows are looked at
detect_format_sniffing(t) ==
    IF Len(t.rows) = 0 THEN unknown_format(t.cols)
    ELSE detect_format_columns(t.cols)

\* detect_format(df)
detect_format(t) == detect_format_columns(t.cols)

(***************************************************************************)
(* data_transformer.py: the per-row helpers                                *)
(***************************************************************************)
\* row.get(name, default)
row_get(row, name, default) ==
    IF StrV(name) \in DOMAIN row THEN row[StrV(name)] ELSE default

\* _generate_sigungu(row), row i of the table
_generate_sigungu(row, i) ==
    LET sgg_code == row_get(row, "sggCd", StrV(""))
        umd_name == row_get(row, "umdNm", StrV(""))
        region == get_sigungu_name(sgg_code, i)
    IN  [value |-> IF py_truthy(umd_name) /\ pd_notna(umd_name)
                   THEN StrV(region.name \o " " \o py_strip(py_str(umd_name)))
                   ELSE StrV(region.name),
         warn |-> region.warn]

\* What a row function gives: a value and the warnings issued, or the
\* exception that leaves it
RowValue(v, w) == [value |-> v, exc |-> "", warn |-> w]

RowRaise(e) == [value |-> None, exc |-> e, warn |-> <<>>]

\* except (ValueError, TypeError): what int() raised is handled when it is
\* one of the two, by a warning that names both cells and the value 0, and
\* leaves the function otherwise (the OverflowError of int(float('inf')))
year_month_except(r, row, i) ==
    IF r.exc \in {"ValueError", "TypeError"}
    THEN RowValue(IntV(0),
                  <<Warning("year_month",
                            py_str(row_get(row, "dealYear", None)) \o "/"
                            \o py_str(row_get(row, "dealMonth", None)),
                            i)>>)
    ELSE RowRaise(r.exc)

\* _generate_contract_yearmonth(row), row i of the table: int() of the year
\* comes first, and the month is not looked at when the year fails
_generate_contract_yearmonth(row, i) ==
    LET year == py_int(row_get(row, "dealYear", IntV(0)))
        month == py_int(row_get(row, "dealMonth", IntV(0)))
    IN  IF ~year.ok THEN year_month_except(year, row, i)
        ELSE IF ~month.ok THEN year_month_except(month, row, i)
        ELSE RowValue(IntV(year.n * 100 + month.n), <<>>)

\* _clean_deal_amount(value), the dealAmount cell of row i
_clean_deal_amount(value, i) ==
    IF pd_isna(value) THEN [value |-> IntV(0), warn |-> <<>>]
    ELSE LET cleaned == py_strip(py_remove(py_str(value), ","))
             parsed == py_int_str(cleaned)
         IN  IF parsed.ok
             THEN [value |-> IntV(parsed.n), warn |-> <<>>]
             ELSE [value |-> IntV(0),
                   warn |-> <<Warning("deal_amount", py_str(value), i)>>]

RECURSIVE AllDigits(_)
AllDigits(s) ==
    IF Len(s) = 0 THEN TRUE
    ELSE Head(s) \in Digits /\ AllDigits(Tail(s))

\* The digits s starts with
RECURSIVE TakeDigits(_)
TakeDigits(s) ==
    IF Len(s) > 0 /\ Head(s) \in Digits
    THEN Head(s) \o TakeDigits(Tail(s)) ELSE ""

\* s after the first k characters
Drop(s, k) == SubSeq(s, k + 1, Len(s))

RECURSIVE Zeros(_)
Zeros(k) == IF k <= 0 THEN "" ELSE "0" \o Zeros(k - 1)

\* s.lower() for a text of ASCII
RECURSIVE py_lower(_)
py_lower(s) ==
    IF Len(s) = 0 THEN ""
    ELSE LET at == {k \in 1..26 :
                       SubSeq("ABCDEFGHIJKLMNOPQRSTUVWXYZ", k, k) = Head(s)}
         IN  (IF at = {} THEN Head(s)
              ELSE SubSeq("abcdefghijklmnopqrstuvwxyz",
                          CHOOSE k \in at : TRUE, CHOOSE k \in at : TRUE))
             \o py_lower(Tail(s))

\* The float of integral part `whole` and digits `frac` after the point,
\* below zero when neg
SignedFloat(neg, whole, frac) ==
    IF neg THEN NegFloatV(whole, IF frac = "" THEN "0" ELSE frac)
    ELSE FloatV(whole, IF frac = "" THEN "0" ELSE frac)

\* The float whose decimal digits are `digits`, `point` of them before the
\* point (zeros are supplied on either side), below zero when neg
Decimal(neg, digits, point) ==
    SignedFloat(neg,
                IntBodyVal(SubSeq(Zeros(0 - point) \o digits
                                      \o Zeros(point - Len(digits)),
                                  1, IF point < 0 THEN 0 ELSE point), 0),
                RStripZeros(Drop(Zeros(0 - point) \o digits
                                     \o Zeros(point - Len(digits)),
                                 IF point < 0 THEN 0 ELSE point)))

\* The digits of an exponent: there has to be one, and nothing else
ParseExponentDigits(neg, digits, point, eneg, ed) ==
    IF Len(ed) > 0 /\ AllDigits(ed)
    THEN Decimal(neg, digits,
                 IF eneg THEN point - IntBodyVal(ed, 0)
                 ELSE point + IntBodyVal(ed, 0))
    ELSE NaN

\* What follows e or E: a sign, then the digits
ParseExponent(neg, digits, point, tail) ==
    IF Len(tail) > 0 /\ Head(tail) \in {"+", "-"}
    THEN ParseExponentDigits(neg, digits, point, Head(tail) = "-", Tail(tail))
    ELSE ParseExponentDigits(neg, digits, point, FALSE, tail)

\* What follows the digits ip and fp around the point: nothing, or an
\* exponent.  Digits alone are an integer; a point or an exponent makes a
\* float; a text without a digit is no number.
ParseTail(neg, ip, fp, pointed, tail) ==
    IF Len(ip) + Len(fp) = 0 THEN NaN
    ELSE IF tail = ""
        THEN (IF pointed THEN Decimal(neg, ip \o fp, Len(ip))
              ELSE IntV(IF neg THEN 0 - IntBodyVal(ip, 0)
                        ELSE IntBodyVal(ip, 0)))
    ELSE IF Head(tail) \in {"e", "E"}
        THEN ParseExponent(neg, ip \o fp, Len(ip), Tail(tail))
    ELSE NaN

\* What follows the integer digits ip: a point and the digits after it
ParseFraction(neg, ip, tail) ==
    IF Len(tail) > 0 /\ Head(tail) = "."
    THEN ParseTail(neg, ip, TakeDigits(Tail(tail)), TRUE,
                   Drop(tail, 1 + Len(TakeDigits(Tail(tail)))))
    ELSE ParseTail(neg, ip, "", FALSE, tail)

\* A sign, then the digits before the point
ParseSigned(body) ==
    IF Len(body) > 0 /\ Head(body) \in {"+", "-"}
    THEN ParseFraction(Head(body) = "-", TakeDigits(Tail(body)),
                       Drop(Tail(body), Len(TakeDigits(Tail(body)))))
    ELSE ParseFraction(FALSE, TakeDigits(body),
                       Drop(body, Len(TakeDigits(body))))

\* A numeric text as the parser of pd.to_numeric reads it: blanks around it,
\* a sign, digits, a point and digits (digits on one side of the point are
\* enough), an exponent after e or E.  inf and infinity, signed or not and
\* in either case, are read when nothing surrounds them.  Anything else is
\* NaN under errors="coerce".
parse_numeric(text) ==
    IF py_lower(text) \in {"inf", "+inf", "infinity", "+infinity"} THEN Inf
    ELSE IF py_lower(text) \in {"-inf", "-infinity"} THEN NegInf
    ELSE ParseSigned(strip_of(text, IntSpace))

\* One cell of pd.to_numeric(series, errors="coerce"): a number stays, a
\* text is parsed, a missing cell is NaN
to_numeric_cell(v) ==
    CASE v.t \in {"int", "float", "inf"} -> v
      [] v.t = "str" -> parse_numeric(v.s)
      [] v.t \in {"nan", "none"} -> NaN

\* pd.to_numeric(series, errors="coerce"): the column is int64 when every
\* cell is an integer and float64 otherwise
pd_to_numeric(series) ==
    LET cells == [i \in 1..Len(series) |-> to_numeric_cell(series[i])]
        allInt == \A i \in 1..Len(series) : cells[i].t = "int"
    IN  [i \in 1..Len(series) |->
            IF cells[i].t = "int" /\ ~allInt THEN py_float(cells[i].n)
            ELSE cells[i]]

\* (mutant) series.fillna("N/A")
fillna_na(v) == IF pd_isna(v) THEN StrV("N/A") ELSE v

\* series.fillna("")
fillna(v) == IF pd_isna(v) THEN StrV("") ELSE v

\* Concatenation of the warning lists ws[1], ..., ws[n]
RECURSIVE Flatten(_, _)
Flatten(ws, n) == IF n = 0 THEN <<>> ELSE Flatten(ws, n - 1) \o ws[n]

\* df.apply(func, axis=1) on a frame without rows calls func once, on a row
\* of NaN under the frame's columns, and discards the value.
ProbeRow(cols) == [c \in cols |-> NaN]

(***************************************************************************)
(* data_transformer.py: transform_to_legacy                                *)
(***************************************************************************)
\* (mutant) the check stops at the first absent column
missing_columns_first(t) ==
    LET Absent(x) == StrV(x) \notin t.cols
        all == SelectSeq(required_columns, Absent)
    IN  IF all = <<>> THEN <<>> ELSE <<Head(all)>>

missing_columns(t) ==
    LET Absent(x) == StrV(x) \notin t.cols
    IN  SelectSeq(required_columns, Absent)

Column(t, name) == [i \in 1..Len(t.rows) |-> t.rows[i][StrV(name)]]

\* The cells a numeric column holds
Numbers == {"int", "float", "nan", "inf", "quotient"}

\* series.dtype: object as soon as a cell is no number (text, None), and for
\* a column without rows as read from a sheet
dtype(series) ==
    IF series = <<>> THEN "object"
    ELSE IF \E i \in 1..Len(series) : series[i].t \notin Numbers
         THEN "object"
    ELSE IF \A i \in 1..Len(series) : series[i].t = "int" THEN "int64"
    ELSE "float64"

\* The cells as a column of a DataFrame holds them.  A column of integers is
\* int64; a column of numbers with an empty cell, a float or a None among
\* them is float64, where an integer is the float of the same value and None
\* is NaN; a column with a text, or of None only, is object and keeps its
\* cells.
held(series) ==
    LET numbers == /\ \A i \in 1..Len(series) :
                         series[i].t \in Numbers \cup {"none"}
                   /\ \E i \in 1..Len(series) : series[i].t \in Numbers
        allInt == \A i \in 1..Len(series) : series[i].t = "int"
    IN  [i \in 1..Len(series) |->
            IF numbers /\ ~allInt /\ series[i].t = "int"
                THEN py_float(series[i].n)
            ELSE IF numbers /\ series[i].t = "none" THEN NaN
            ELSE series[i]]

\* The DataFrame of the rows t lists: every column holds its cells as its
\* dtype has them
frame(t) ==
    [cols |-> t.cols,
     rows |-> [i \in 1..Len(t.rows) |->
                  [c \in t.cols |->
                      held([k \in 1..Len(t.rows) |-> t.rows[k][c]])[i]]]]

\* (mutant) NO goes on from the last number the first normalisation of the
\* process gave
row_numbers_continued(n) ==
    [i \in 1..n |->
        IntV(i + (IF memo.set /\ memo.output.kind = "return"
                  THEN Len(memo.output.table.rows) ELSE 0))]

\* range(1, len(df) + 1)
row_numbers(n) == [i \in 1..n |-> IntV(i)]

\* (mutant) the cancellation column is copied without fillna
cancellation_column_copied(t) ==
    IF StrV("cdealDay") \in t.cols
    THEN [i \in 1..Len(t.rows) |-> t.rows[i][StrV("cdealDay")]]
    ELSE [i \in 1..Len(t.rows) |-> StrV("")]

\* The cancellation column: df["cdealDay"].fillna("") when the column
\* exists, "" on every row otherwise
cancellation_column(t) ==
    IF StrV("cdealDay") \in t.cols
    THEN [i \in 1..Len(t.rows) |-> fillna(t.rows[i][StrV("cdealDay")])]
    ELSE [i \in 1..Len(t.rows) |-> StrV("")]

\* The columns of a frame by label
LabelColumn(t, c) == [k \in 1..Len(t.rows) |-> t.rows[k][c]]

\* The dtype of the rows of a frame: a frame of numeric columns, int64 and
\* float64 among them, has float64 rows
float_rows(t) ==
    /\ \A c \in t.cols : dtype(LabelColumn(t, c)) \in {"int64", "float64"}
    /\ \E c \in t.cols : dtype(LabelColumn(t, c)) = "float64"

\* Row i as df.apply(func, axis=1) hands it to func: the cells as the dtype
\* of the row holds them, an integer as the float of the same value in a
\* float64 row
apply_row(t, i) ==
    IF float_rows(t)
    THEN [c \in t.cols |-> IF t.rows[i][c].t = "int"
                           THEN py_float(t.rows[i][c].n) ELSE t.rows[i][c]]
    ELSE t.rows[i]

\* The rows of ym (the values of line 150) before the first that raised
Before(ym) ==
    LET raised == {i \in 1..Len(ym) : ym[i].exc # ""}
    IN  IF raised = {} THEN Len(ym)
        ELSE (CHOOSE i \in raised : \A k \in raised : i <= k) - 1

\* transform_to_legacy on the frame t.  An exception that leaves a row
\* function leaves df.apply and transform_to_legacy at that row: the
\* warnings of lines 141 and 150 issued until then have been issued.
transform_frame(t) ==
    IF missing_columns(t) # <<>>
    THEN [kind |-> "raise", exc |-> "KeyError", missing |-> missing_columns(t),
          table |-> [cols |-> {}, rows |-> <<>>], warn |-> <<>>]
    ELSE
    LET N == Len(t.rows)
        sigungu == IF N = 0 THEN <<_generate_sigungu(ProbeRow(t.cols), 0)>>
                   ELSE [i \in 1..N |-> _generate_sigungu(apply_row(t, i), i)]
        yearmonth ==
            IF N = 0 THEN <<_generate_contract_yearmonth(ProbeRow(t.cols), 0)>>
            ELSE [i \in 1..N |->
                     _generate_contract_yearmonth(apply_row(t, i), i)]
        amount == [i \in 1..N |->
                      _clean_deal_amount(t.rows[i][StrV("dealAmount")], i)]
        area == pd_to_numeric(Column(t, "excluUseAr"))
        NO == row_numbers(N)
        cancel == cancellation_column(t)
        NewRow(i) ==
            (StrV("NO") :> NO[i]) @@
            (StrV("sigungu") :> sigungu[i].value) @@
            (StrV("danjimyeong") :> t.rows[i][StrV("aptNm")]) @@
            (StrV("jeonyongmyeonjeok(m2)") :> area[i]) @@
            (StrV("gyeyaknyeonwol") :> yearmonth[i].value) @@
            (StrV("gyeyakil") :> t.rows[i][StrV("dealDay")]) @@
            (StrV("georaegeumaek(manwon)") :> amount[i].value) @@
            (StrV("cheung") :> t.rows[i][StrV("floor")]) @@
            (StrV("geonchuknyeondo") :> t.rows[i][StrV("buildYear")]) @@
            (StrV("haejesayubalsaengil") :> cancel[i])
    IN  IF Before(yearmonth) < Len(yearmonth)
        THEN [kind |-> "raise", exc |-> yearmonth[Before(yearmonth) + 1].exc,
              missing |-> <<>>, table |-> [cols |-> {}, rows |-> <<>>],
              warn |-> Flatten([i \in 1..Len(sigungu) |-> sigungu[i].warn],
                               Len(sigungu))
                       \o Flatten([i \in 1..Before(yearmonth) |->
                                      yearmonth[i].warn], Before(yearmonth))]
        ELSE
        [kind |-> "return", exc |-> "", missing |-> <<>>,
         table |-> [cols |-> LEGACY_COLUMNS, rows |-> [i \in 1..N |-> NewRow(i)]],
         warn |-> Flatten([i \in 1..Len(sigungu) |-> sigungu[i].warn],
                          Len(sigungu))
                  \o Flatten([i \in 1..Len(yearmonth) |-> yearmonth[i].warn],
                             Len(yearmonth))
                  \o Flatten([i \in 1..N |-> amount[i].warn], N)]

\* transform_to_legacy(df)
transform_to_legacy(t) == transform_frame(frame(t))

(***************************************************************************)
(* The tables a caller may hand over.  Cells hold what a spreadsheet cell   *)
(* loads as: text, an integer, a float, NaN for an empty cell, or None in   *)
(* an object column.  A float64 column may hold inf and -inf.              *)
(***************************************************************************)
MaxRows == 2

SeqUpTo(S, n) == UNION {[1..k -> S] : k \in 0..n}

BaseCell(c) ==
    CASE c = StrV("sggCd") -> StrV("11380")
      [] c = StrV("umdNm") -> StrV("Bulgwang-dong")
      [] c = StrV("aptNm") -> StrV("A")
      [] c = StrV("excluUseAr") -> FloatV(84, "97")
      [] c = StrV("dealYear") -> IntV(2024)
      [] c = StrV("dealMonth") -> IntV(7)
      [] c = StrV("dealDay") -> IntV(15)
      [] c = StrV("dealAmount") -> StrV("85,000")
      [] c = StrV("floor") -> IntV(3)
      [] c = StrV("buildYear") -> IntV(1999)
      [] c = StrV("cdealDay") -> NaN
      [] OTHER -> StrV("x")

BaseRow(cols) == [c \in cols |-> BaseCell(c)]

\* The base row with the cells of `cells` (label name -> value) put in
With(cols, cells) ==
    [c \in cols |-> IF c.t = "str" /\ c.s \in DOMAIN cells THEN cells[c.s]
                    ELSE BaseCell(c)]

SggValues ==
    {StrV("11380"), StrV("99999"), StrV(" 11680\n"), FloatV(11380, "0"), NaN,
     None}

\* A dong cell is text, empty, or a number (a lot number typed into the
\* wrong column loads as an integer)
UmdValues ==
    {StrV("Bulgwang-dong"), StrV(" Yeokchon-dong "), StrV(""), NaN, IntV(0)}

YearValues ==
    {IntV(2024), StrV("2024"), FloatV(2025, "0"), StrV("20x4"),
     StrV("2024"), NaN, None}

MonthValues == {IntV(7), StrV(" 12"), StrV("7.0"), NaN}

AmountValues ==
    {StrV("1,234,567"), StrV(" 85,000\r\n"), StrV("9500"), IntV(85000),
     FloatV(85000, "0"), StrV("abc"), StrV(""), NaN, None}

CancelValues == {StrV(""), StrV("-"), StrV("20250301"), NaN, None}

AptValues == {StrV("A"), StrV("B"), StrV("C")}

AreaValues ==
    {FloatV(84, "97"), IntV(59), StrV("59.4"), StrV(" 5.94e1\n"), StrV("inf"),
     StrV("n/a"), NaN}

NoUmd == NEW_API_COLUMNS \ {StrV("umdNm")}

NoCancel == NEW_API_COLUMNS \ {StrV("cdealDay")}

WithNO == NEW_API_COLUMNS \cup {StrV("NO")}

\* Tables in the new-API shape whose rows vary one group of fields
RegionTables ==
    UNION {[cols : {cols},
            rows : SeqUpTo({With(cols, ("sggCd" :> a) @@ ("umdNm" :> b)) :
                               a \in SggValues, b \in UmdValues}, MaxRows)] :
           cols \in {NEW_API_COLUMNS, NoUmd}}

YearMonthTables ==
    [cols : {NEW_API_COLUMNS},
     rows : SeqUpTo({With(NEW_API_COLUMNS,
                          ("dealYear" :> a) @@ ("dealMonth" :> b)) :
                        a \in YearValues, b \in MonthValues}, MaxRows)]

AmountTables ==
    [cols : {NEW_API_COLUMNS},
     rows : SeqUpTo({With(NEW_API_COLUMNS, "dealAmount" :> a) :
                        a \in AmountValues}, MaxRows)]

CancelTables ==
    UNION {[cols : {cols},
            rows : SeqUpTo({With(cols, "cdealDay" :> a) : a \in CancelValues},
                           MaxRows)] :
           cols \in {NEW_API_COLUMNS, NoCancel}}

\* Rows told apart by their complex name; a source column NO may be present
OrderTables ==
    UNION {[cols : {cols},
            rows : SeqUpTo({With(cols, ("aptNm" :> a) @@ ("excluUseAr" :> b)
                                       @@ ("NO" :> IntV(7))) :
                               a \in AptValues, b \in AreaValues}, MaxRows)] :
           cols \in {NEW_API_COLUMNS, WithNO}}

\* Rows in which several fields fail to coerce at once
CoercionTables ==
    [cols : {NEW_API_COLUMNS},
     rows : SeqUpTo({With(NEW_API_COLUMNS,
                          ("sggCd" :> a[1]) @@ ("dealYear" :> a[2])
                          @@ ("dealAmount" :> b) @@ ("excluUseAr" :> c)) :
                        a \in {<<StrV("11380"), IntV(2024)>>,
                               <<StrV("99999"), StrV("20x4")>>},
                        b \in {StrV("85,000"), StrV("abc"), NaN},
                        c \in {FloatV(84, "97"), StrV("n/a")}}, MaxRows)]

\* Rows with an infinite year or month, the region code known or not
OverflowTables ==
    [cols : {NEW_API_COLUMNS},
     rows : SeqUpTo({With(NEW_API_COLUMNS,
                          ("sggCd" :> c) @@ ("dealYear" :> a[1])
                          @@ ("dealMonth" :> a[2])) :
                        a \in {<<IntV(2024), IntV(7)>>, <<Inf, IntV(7)>>,
                               <<IntV(2024), Inf>>, <<NegInf, StrV("x")>>,
                               <<StrV("x"), Inf>>},
                        c \in {StrV("11380"), StrV("99999")}}, MaxRows)]

\* Sheets without a text cell: the complex name and the amount are numbers,
\* the dong names and the cancellation dates are empty or absent
NumericTables ==
    UNION {[cols : {cols},
            rows : SeqUpTo({With(cols, ("sggCd" :> a) @@ ("umdNm" :> NaN)
                                       @@ ("aptNm" :> IntV(101))
                                       @@ ("excluUseAr" :> b)
                                       @@ ("dealMonth" :> c)
                                       @@ ("dealAmount" :> IntV(85000))) :
                               a \in {IntV(11380), IntV(99999)},
                               b \in {FloatV(84, "97"), IntV(59)},
                               c \in {IntV(7), NaN}}, MaxRows)] :
           cols \in {NEW_API_COLUMNS,
                     NEW_API_COLUMNS \ {StrV("umdNm"), StrV("cdealDay")}}}

\* Every choice of at most MaxAbsent absent new-API columns, without rows or
\* with one row
MaxAbsent == 3

PartialTables ==
    UNION {[cols : {NEW_API_COLUMNS \ M},
            rows : {<<>>, <<BaseRow(NEW_API_COLUMNS \ M)>>}] :
           M \in {A \in SUBSET NEW_API_COLUMNS : Cardinality(A) <= MaxAbsent}}

\* Every choice of signature columns and stray labels; the rows carry text
\* or empty cells
SignatureTables ==
    UNION {[cols : {cols},
            rows : SeqUpTo({BaseRow(cols), [c \in cols |-> NaN]}, MaxRows)] :
           cols \in SUBSET (Label({"sigungu", "danjimyeong",
                                   "georaegeumaek(manwon)", "sggCd", "aptNm",
                                   "dealAmount"}) \cup OtherLabels)}

\* More than MaxShown columns and neither signature
WideTables ==
    [cols : {(LEGACY_COLUMNS \ {StrV("sigungu")})
             \cup (NEW_API_COLUMNS \ {StrV("sggCd")}),
             (LEGACY_COLUMNS \ {StrV("danjimyeong")})
             \cup (NEW_API_COLUMNS \ {StrV("aptNm")}) \cup {IntV(2024)}},
     rows : {<<>>}]

\* Sheets whose header holds no text at all, or an empty cell among others:
\* the labels are nan, None or numbers
LabelTables ==
    UNION {[cols : {cols}, rows : SeqUpTo({BaseRow(cols)}, 1)] :
           cols \in {{NaN}, {None}, {NaN, StrV("aptNm")},
                     {NaN, IntV(2024)}, {None, StrV("aptNm")},
                     {IntV(1), FloatV(1, "5")},
                     {NaN, IntV(1), FloatV(1, "5")}}}

Tables ==
    RegionTables \cup YearMonthTables \cup AmountTables \cup CancelTables
    \cup OrderTables
    \cup CoercionTables \cup OverflowTables \cup NumericTables
    \cup PartialTables \cup SignatureTables \cup WideTables
    \cup LabelTables

\* The DataFrames of the tables of S
Frames(S) == {frame(t) : t \in S}

(***************************************************************************)
(* The state machine: one call of the core on the table at hand.           *)
(***************************************************************************)
NoResult == [kind |-> "none"]

NoPrev == [set |-> FALSE, cols |-> {}, nrows |-> 0, outcome |-> NoResult]

NoTable == [cols |-> {}, rows |-> <<>>]

\* No mapping handed out yet
NoMapping == [held |-> FALSE, alias |-> FALSE, map |-> <<>>]

\* st.session_state without a 'cancelled_count' entry
NoCount == [set |-> FALSE, n |-> 0]

NoMemo ==
    [set |-> FALSE, again |-> FALSE, input |-> NoTable, output |-> NoResult]

\* The paths load_data_from_path is called with
Paths == {"a.xlsx", "b.xlsx"}

\* Nothing kept for a path yet
NoEntry == [set |-> FALSE, table |-> NoTable]

NoCache == [p \in Paths |-> NoEntry]

\* A fresh process: the registry as the module defines it, an empty session,
\* an empty cache
Fresh ==
    /\ region_map = REGION_CODE_MAP
    /\ returned = NoMapping
    /\ session = NoCount
    /\ arg = NoTable
    /\ memo = NoMemo
    /\ cache = NoCache

Init ==
    /\ df \in Frames(Tables)
    /\ op = "none"
    /\ result = NoResult
    /\ warnings = <<>>
    /\ prev = NoPrev
    /\ Fresh

\* detect_format(df)
DetectFormat ==
    /\ op = "none"
    /\ op' = "detect_format"
    /\ result' = detect_format(df)
    /\ warnings' = <<>>
    /\ arg' = df
    /\ UNCHANGED <<df, prev, region_map, returned, session, memo, cache>>

\* What the caller of transform_to_legacy gets: the table or the exception
Outcome(r) ==
    [kind |-> r.kind, exc |-> r.exc, missing |-> r.missing, table |-> r.table]

\* The call transform_to_legacy(df) that gave r is recorded
Normalize(r) ==
    /\ result' = Outcome(r)
    /\ warnings' = r.warn
    /\ memo' = IF memo.set THEN [memo EXCEPT !.again = TRUE]
               ELSE [set |-> TRUE, again |-> FALSE, input |-> df,
                     output |-> Outcome(r)]

\* transform_to_legacy(df)
TransformToLegacy ==
    /\ op = "none"
    /\ op' = "transform_to_legacy"
    /\ Normalize(transform_to_legacy(df))
    /\ arg' = df
    /\ UNCHANGED <<df, prev, region_map, returned, session, cache>>

\* After a detect_format call the caller presents a table with the same
\* column labels and other rows (the same sheet with other data).
ReplaceRows ==
    /\ op = "detect_format"
    /\ ~prev.set
    /\ \E rows \in SeqUpTo({BaseRow(df.cols), [c \in df.cols |-> NaN]}, 1) :
          /\ rows # df.rows
          /\ df' = [cols |-> df.cols, rows |-> rows]
    /\ prev' = [set |-> TRUE, cols |-> df.cols, nrows |-> Len(df.rows),
                outcome |-> [kind |-> result.kind, value |-> result.value]]
    /\ op' = "none"
    /\ result' = NoResult
    /\ warnings' = <<>>
    /\ UNCHANGED rest

Next == DetectFormat \/ TransformToLegacy \/ ReplaceRows

Spec == Init /\ [][Next]_vars

(***************************************************************************)
(* Properties                                                              *)
(***************************************************************************)
Detected == op = "detect_format"

Transformed == op = "transform_to_legacy"

LegacySignature == Label({"sigungu", "danjimyeong", "georaegeumaek(manwon)"})

NewApiSignature == Label({"sggCd", "aptNm", "dealAmount"})

RequiredNames ==
    {"sggCd", "aptNm", "excluUseAr", "dealYear", "dealMonth", "dealDay",
     "dealAmount", "floor", "buildYear"}

AbsentRequired == {x \in RequiredNames : StrV(x) \notin df.cols}

\* The normalisation ran on a table with every required column
Normalized == Transformed /\ AbsentRequired = {}

\* The normalisation returned a table
Completed == Normalized /\ result.kind = "return"

Cell(i, name) == df.rows[i][StrV(name)]

Out(i, name) == result.table.rows[i][StrV(name)]

Rows == 1..Len(df.rows)

\* The number of warnings of a kind emitted while row i was processed
WarningCount(kind, i) ==
    Cardinality({k \in 1..Len(warnings) :
                    warnings[k].kind = kind /\ warnings[k].row = i})

\* C1: a table whose columns include the three legacy signature columns is
\* classified 'old', also when the three new-API signature columns are
\* present as well.
C1_LegacyFirst ==
    (Detected /\ LegacySignature \subseteq df.cols)
        => (result.kind = "return" /\ result.value = "old")

C1_Witness ==
    /\ Detected
    /\ LegacySignature \subseteq df.cols
    /\ NewApiSignature \subseteq df.cols
    /\ result.value = "old"

\* C2: a table whose columns include sggCd, aptNm and dealAmount and lack at
\* least one legacy signature column is classified 'new'.
C2_NewApi ==
    (Detected /\ NewApiSignature \subseteq df.cols
              /\ ~(LegacySignature \subseteq df.cols))
        => (result.kind = "return" /\ result.value = "new")

C2_Witness ==
    /\ Detected
    /\ NewApiSignature \subseteq df.cols
    /\ StrV("sigungu") \in df.cols
    /\ StrV("danjimyeong") \notin df.cols
    /\ StrV("umdNm") \notin df.cols
    /\ result.value = "new"

\* C3: a table with neither full signature makes detect_format raise the
\* ValueError, whatever its column labels are, and no other exception.
C3_UnknownSchema ==
    (Detected /\ ~(LegacySignature \subseteq df.cols)
              /\ ~(NewApiSignature \subseteq df.cols))
        => (result.kind = "raise" /\ result.value = "ValueError")

\* The one outcome the column labels call for: legacy when the legacy
\* signature is among them, new-API when only the new-API signature is,
\* failure otherwise
ShapeOf(cols) ==
    IF LegacySignature \subseteq cols THEN "old"
    ELSE IF NewApiSignature \subseteq cols THEN "new"
    ELSE "failure"

OutcomeOf(r) == IF r.kind = "return" THEN r.value ELSE "failure"

\* C4: every call of detect_format has exactly one outcome, the one its
\* table's column labels call for, whatever the rows hold; and of two tables
\* with the same column labels and different rows (none among them), the
\* second gets the outcome the first got, down to the exception raised.
C4_ColumnsDecide ==
    Detected =>
        /\ result.kind \in {"return", "raise"}
        /\ result.kind = "return" => result.value \in {"old", "new"}
        /\ OutcomeOf(result) = ShapeOf(df.cols)
        /\ (prev.set /\ prev.cols = df.cols) =>
              /\ OutcomeOf(prev.outcome) = ShapeOf(df.cols)
              /\ prev.outcome = [kind |-> result.kind, value |-> result.value]

\* The second table has no rows, the first one had some.
C4_Witness ==
    /\ Detected
    /\ prev.set
    /\ prev.cols = df.cols
    /\ prev.nrows > 0
    /\ Len(df.rows) = 0
    /\ result.value = "new"

\* C5: when a required column is absent, transform_to_legacy raises the
\* KeyError that names every absent required column (each once), emits no
\* warning and returns no table; when the nine required columns are present
\* no KeyError is raised, and a table without cdealDay returns or fails as
\* the same table with an empty cdealDay column does.
C5_MissingColumns ==
    Transformed =>
        /\ AbsentRequired # {} =>
              /\ result.kind = "raise"
              /\ result.exc = "KeyError"
              /\ {result.missing[k] : k \in 1..Len(result.missing)}
                    = AbsentRequired
              /\ Len(result.missing) = Cardinality(AbsentRequired)
              /\ warnings = <<>>
              /\ result.table = [cols |-> {}, rows |-> <<>>]
        /\ AbsentRequired = {} =>
              /\ result.exc # "KeyError"
              /\ StrV("cdealDay") \notin df.cols =>
                    result.kind =
                        transform_to_legacy(
                            [cols |-> df.cols \cup {StrV("cdealDay")},
                             rows |-> [i \in Rows |->
                                          df.rows[i]
                                              @@ (StrV("cdealDay") :> NaN)]]
                        ).kind

C5_Witness ==
    /\ Transformed
    /\ Cardinality(AbsentRequired) = 2
    /\ Len(df.rows) = 1
    /\ result.kind = "raise"
    /\ Len(result.missing) = 2

\* C6: a table of N rows with the required columns is normalised to N rows
\* in the source order, whatever the cells hold, and NO is 1..N, not a value
\* of the source.
C6_RowsPreserved ==
    Normalized =>
        /\ result.kind = "return"
        /\ Len(result.table.rows) = Len(df.rows)
        /\ \A i \in Rows :
              /\ Out(i, "NO") = IntV(i)
              /\ Out(i, "danjimyeong") = Cell(i, "aptNm")
              /\ Out(i, "gyeyakil") = Cell(i, "dealDay")
              /\ Out(i, "cheung") = Cell(i, "floor")
              /\ Out(i, "geonchuknyeondo") = Cell(i, "buildYear")

\* C7: sigungu is the registry lookup of sggCd, followed by one space and
\* the trimmed umdNm when the umdNm column exists and the cell is neither
\* missing nor empty, and the lookup alone otherwise.  (A dong cell holding
\* the number 0 is present and not empty.)
C7_Sigungu ==
    Completed =>
        \A i \in Rows :
            LET lookup == get_sigungu_name(Cell(i, "sggCd"), i).name
                dong == IF StrV("umdNm") \in df.cols THEN Cell(i, "umdNm")
                        ELSE None
            IN  Out(i, "sigungu") =
                    IF pd_notna(dong) /\ dong # StrV("")
                    THEN StrV(lookup \o " " \o py_strip(py_str(dong)))
                    ELSE StrV(lookup)

\* C8: gyeyaknyeonwol is year * 100 + month when int() accepts dealYear and
\* dealMonth; otherwise it is 0, one warning is emitted for the row, the row
\* is kept and the normalisation returns.
C8_YearMonth ==
    Normalized =>
        /\ result.kind = "return"
        /\ Len(result.table.rows) = Len(df.rows)
        /\ \A i \in Rows :
              LET year == py_int(Cell(i, "dealYear"))
                  month == py_int(Cell(i, "dealMonth"))
              IN  IF year.ok /\ month.ok
                  THEN /\ Out(i, "gyeyaknyeonwol")
                             = IntV(year.n * 100 + month.n)
                       /\ WarningCount("year_month", i) = 0
                  ELSE /\ Out(i, "gyeyaknyeonwol") = IntV(0)
                       /\ WarningCount("year_month", i) = 1

\* The amount text of a cell: str(value) without commas, stripped
AmountText(v) == py_strip(py_remove(py_str(v), ","))

AmountParses(v) == pd_notna(v) /\ py_int_str(AmountText(v)).ok

\* C9: the amount is the integer read from dealAmount without
\* separators and surrounding blanks; an unparsable or missing dealAmount
\* gives 0 with a warning; the row is kept.
C9_AmountWarnsOnMissing ==
    Completed =>
        /\ Len(result.table.rows) = Len(df.rows)
        /\ \A i \in Rows :
              IF AmountParses(Cell(i, "dealAmount"))
              THEN Out(i, "georaegeumaek(manwon)")
                      = IntV(py_int_str(AmountText(Cell(i, "dealAmount"))).n)
              ELSE /\ Out(i, "georaegeumaek(manwon)") = IntV(0)
                   /\ WarningCount("deal_amount", i) = 1

\* C10: haejesayubalsaengil is the cdealDay cell, "" where that cell is
\* missing, when the column exists, and "" on every row when it does not;
\* it is never a missing value.
C10_Cancellation ==
    Completed =>
        \A i \in Rows :
            /\ Out(i, "haejesayubalsaengil") =
                  IF StrV("cdealDay") \notin df.cols THEN StrV("")
                  ELSE IF Cell(i, "cdealDay") \in {NaN, None} THEN StrV("")
                  ELSE Cell(i, "cdealDay")
            /\ Out(i, "haejesayubalsaengil") \notin {NaN, None}

C10_Witness ==
    /\ Completed
    /\ Len(df.rows) = 2
    /\ StrV("cdealDay") \in df.cols
    /\ Cell(1, "cdealDay") = NaN
    /\ Out(1, "haejesayubalsaengil") = StrV("")
    /\ Cell(2, "cdealDay") = StrV("20250301")
    /\ Out(2, "haejesayubalsaengil") = StrV("20250301")

(***************************************************************************)
(* region_code_mapper.py: the calls of the registry                        *)
(***************************************************************************)
\* is_valid_region_code looking up the trimmed text without cutting it at
\* the first "."
is_valid_region_code_uncut(code) ==
    IF code.t = "none" THEN FALSE
    ELSE py_strip(py_str(code)) \in DOMAIN region_map

\* is_valid_region_code(code)
is_valid_region_code(code) ==
    IF code.t = "none" THEN FALSE
    ELSE code_str(code) \in DOMAIN region_map

\* get_all_region_codes returning the module's dict itself
get_all_region_codes_shared ==
    [held |-> TRUE, alias |-> TRUE, map |-> region_map]

\* get_all_region_codes(): REGION_CODE_MAP.copy(), a new dict with the
\* entries the registry has now
get_all_region_codes ==
    [held |-> TRUE, alias |-> FALSE, map |-> region_map]

\* What a caller does to a dict it holds: m[key] = name, or del m[key]
Edits ==
    {[key |-> "11380", del |-> TRUE, name |-> ""],
     [key |-> "11380", del |-> FALSE, name |-> "X"],
     [key |-> "99999", del |-> FALSE, name |-> "Nowhere"]}

Edit(m, e) ==
    IF e.del THEN [k \in DOMAIN m \ {e.key} |-> m[k]]
    ELSE [k \in DOMAIN m \cup {e.key} |-> IF k = e.key THEN e.name ELSE m[k]]

\* The codes the registry is asked about
Codes ==
    {StrV("11380"), StrV("99999"), StrV("\t11680 \n"), StrV("11380.5"),
     StrV("11380"), StrV(""), StrV("Seoul Eunpyeong-gu"), StrV("None"), IntV(11380),
     IntV(12345), FloatV(11380, "0"), FloatV(99999, "0"), NaN, None}

RegistrySggValues == {StrV("11380"), StrV("99999"), FloatV(11380, "0"), None}

\* Tables in the new-API shape whose rows vary the region code
RegistryTables ==
    [cols : {NEW_API_COLUMNS},
     rows : SeqUpTo({With(NEW_API_COLUMNS, "sggCd" :> a) :
                        a \in RegistrySggValues}, MaxRows)]

InitRegistry ==
    /\ df \in Frames(RegistryTables)
    /\ op = "none"
    /\ result = NoResult
    /\ warnings = <<>>
    /\ prev = NoPrev
    /\ Fresh

\* The call get_sigungu_name(code) that gave r is recorded
LookedUpAs(code, r) ==
    /\ result' = [kind |-> "return", code |-> code, value |-> r.name]
    /\ warnings' = r.warn

\* get_sigungu_name(code) for one of the codes of C
Lookup(C) ==
    /\ op = "none"
    /\ \E code \in C : LookedUpAs(code, get_sigungu_name(code, 0))
    /\ op' = "get_sigungu_name"
    /\ UNCHANGED <<df, prev, rest>>

\* get_sigungu_name(code)
GetSigunguName == Lookup(Codes)

\* is_valid_region_code(code)
IsValidRegionCode ==
    /\ op = "none"
    /\ \E code \in Codes :
          result' = [kind |-> "return", code |-> code,
                     value |-> is_valid_region_code(code)]
    /\ warnings' = <<>>
    /\ op' = "is_valid_region_code"
    /\ UNCHANGED <<df, prev, rest>>

\* m = get_all_region_codes()
GetAllRegionCodes ==
    /\ op = "none"
    /\ returned' = get_all_region_codes
    /\ result' = [kind |-> "return", value |-> get_all_region_codes.map]
    /\ warnings' = <<>>
    /\ op' = "get_all_region_codes"
    /\ UNCHANGED <<df, prev, region_map, session, arg, memo, cache>>

\* The caller changes the dict it got from get_all_region_codes; when that
\* dict is the module's own, the registry changes with it.
CallerEdits ==
    /\ op = "none"
    /\ returned.held
    /\ \E e \in Edits :
          /\ Edit(returned.map, e) # returned.map
          /\ returned' = [returned EXCEPT !.map = Edit(returned.map, e)]
          /\ region_map' = IF returned.alias THEN Edit(returned.map, e)
                           ELSE region_map
    /\ UNCHANGED <<df, op, result, warnings, prev, session, arg, memo, cache>>

\* The caller goes on to its next call
Proceed ==
    /\ op # "none"
    /\ op' = "none"
    /\ result' = NoResult
    /\ warnings' = <<>>
    /\ arg' = NoTable
    /\ UNCHANGED <<df, prev, region_map, returned, session, memo, cache>>

NextRegistry ==
    \/ GetSigunguName
    \/ IsValidRegionCode
    \/ GetAllRegionCodes
    \/ CallerEdits
    \/ TransformToLegacy
    \/ Proceed

SpecRegistry == InitRegistry /\ [][NextRegistry]_vars

(***************************************************************************)
(* Properties of the registry calls                                        *)
(***************************************************************************)
LookedUp == op = "get_sigungu_name"

Validated == op = "is_valid_region_code"

\* The values of the registry as the module defines it
RegistryNames == {REGION_CODE_MAP[k] : k \in DOMAIN REGION_CODE_MAP}

\* The text a code is looked up by: str(code) trimmed, up to its first "."
Coerced(code) ==
    LET text == py_strip(py_str(code))
    IN  IF py_contains(text, ".") THEN py_before(text, ".") ELSE text

\* What a lookup gives on the registry as the module defines it
FreshName(code) ==
    IF code = None THEN ""
    ELSE IF Coerced(code) \in DOMAIN REGION_CODE_MAP
         THEN REGION_CODE_MAP[Coerced(code)]
         ELSE Coerced(code)

\* C13: get_sigungu_name on a code whose string is not a key of the registry
\* returns that code string as it is and emits one warning without raising;
\* on a key it returns the mapped name and emits no warning; and a
\* normalisation of a table that holds unknown codes completes, keeping every
\* row.  (The code string is str(code) trimmed and cut at its first ".";
\* that of None is "None".)
C13_UnknownCode ==
    /\ LookedUp =>
          /\ result.kind = "return"
          /\ IF Coerced(result.code) \in DOMAIN REGION_CODE_MAP
             THEN /\ result.value = REGION_CODE_MAP[Coerced(result.code)]
                  /\ warnings = <<>>
             ELSE /\ result.value = Coerced(result.code)
                  /\ Len(warnings) = 1
                  /\ warnings[1].kind = "region_code"
                  /\ warnings[1].text = Coerced(result.code)
    /\ (Transformed /\ df \in RegistryTables) =>
          /\ result.kind = "return"
          /\ Len(result.table.rows) = Len(df.rows)

\* C14 as stated: both lookups coerce the code to a string and drop
\* everything from the first decimal point, so 11380.0 resolves as 11380
\* does, and is_valid_region_code(code) is true exactly when
\* get_sigungu_name(code) returns a name of the registry.
C14_SameCoercion ==
    /\ Validated =>
          /\ result.value =
                (get_sigungu_name(result.code, 0).name \in RegistryNames)
          /\ result.code.t = "float" =>
                result.value = is_valid_region_code(IntV(result.code.n))
    /\ LookedUp =>
          /\ (result.value \in RegistryNames) =
                is_valid_region_code(result.code)
          /\ result.code.t = "float" =>
                result.value = get_sigungu_name(IntV(result.code.n), 0).name

\* The lookup found the code: it gave the name the registry maps the
\* coerced code to, and no warning
Found(code, r) ==
    /\ code # None
    /\ Coerced(code) \in DOMAIN REGION_CODE_MAP
    /\ r.name = REGION_CODE_MAP[Coerced(code)]
    /\ r.warn = <<>>

\* C14, amended: both lookups coerce the code to a string and drop
\* everything from the first decimal point, so 11380.0 resolves as 11380
\* does, and is_valid_region_code(code) is true exactly when the coerced
\* code is a key of the registry, which is exactly when get_sigungu_name(code)
\* returns the name mapped to that key and emits no warning.  (A code that
\* is itself the text of a registry name is returned as it is, with a
\* warning, and is not valid.)
C14_SameCoercionByKey ==
    /\ Validated =>
          /\ result.value = (/\ result.code # None
                             /\ Coerced(result.code)
                                   \in DOMAIN REGION_CODE_MAP)
          /\ result.value = Found(result.code,
                                  get_sigungu_name(result.code, 0))
          /\ result.code.t = "float" =>
                result.value = is_valid_region_code(IntV(result.code.n))
    /\ LookedUp =>
          /\ Found(result.code, [name |-> result.value, warn |-> warnings])
                = is_valid_region_code(result.code)
          /\ ~is_valid_region_code(result.code) =>
                result.value = IF result.code = None THEN ""
                               ELSE Coerced(result.code)
          /\ result.code.t = "float" =>
                /\ result.value
                      = get_sigungu_name(IntV(result.code.n), 0).name
                /\ Len(warnings)
                      = Len(get_sigungu_name(IntV(result.code.n), 0).warn)

\* 11380.0 was validated and is a registry code
C14_Witness ==
    /\ Validated
    /\ result.code = FloatV(11380, "0")
    /\ result.value = TRUE

\* C15: whatever callers did to the mappings get_all_region_codes gave them,
\* and whatever lookups and normalisations ran, the registry is the one the
\* module defines, and every lookup, validation and get_all_region_codes call
\* returns what it returns on that registry.
C15_RegistryImmutable ==
    /\ region_map = REGION_CODE_MAP
    /\ LookedUp => result.value = FreshName(result.code)
    /\ Validated =>
          result.value = (/\ result.code # None
                          /\ Coerced(result.code) \in DOMAIN REGION_CODE_MAP)
    /\ op = "get_all_region_codes" => result.value = REGION_CODE_MAP

\* A caller deleted 11380 from the mapping it holds, a normalisation ran, and
\* a later lookup of 11380 still gives its name
C15_Witness ==
    /\ returned.held
    /\ "11380" \notin DOMAIN returned.map
    /\ "99999" \in DOMAIN returned.map
    /\ memo.set
    /\ LookedUp
    /\ result.code = StrV("11380")
    /\ result.value = "Seoul Eunpyeong-gu"

(***************************************************************************)
(* app.py: preprocess_data                                                 *)
(*                                                                         *)
(* Two more kinds of cell appear in the columns preprocess_data derives:   *)
(*   date      a Timestamp, n = year * 10000 + month * 100 + day           *)
(*   nat       NaT, the missing Timestamp                                  *)
(*   quotient  the double a / b of two finite numbers other than zero,     *)
(*             s = "a / b" with the operands written as floats, n = -1     *)
(*             below zero and 1 above.  The digits of the quotient are not *)
(*             computed; two quotients are the same cell when their        *)
(*             operands are.                                               *)
(***************************************************************************)
DateV(ymd) == [t |-> "date", s |-> "", n |-> ymd]

NaT == [t |-> "nat", s |-> "", n |-> 0]

\* df[name] = series
SetColumn(t, name, series) ==
    LET cols == t.cols \cup {StrV(name)}
    IN  [cols |-> cols,
         rows |-> [i \in 1..Len(t.rows) |->
                      [c \in cols |-> IF c = StrV(name) THEN series[i]
                                      ELSE t.rows[i][c]]]]

\* is_cancelled comparing the text without trimming it
is_cancelled_untrimmed(val) ==
    IF pd_isna(val) THEN FALSE
    ELSE py_str(val) \notin {"-", "", "nan", "None"}

\* is_cancelled(val), the function preprocess_data applies to each
\* 해제사유발생일 cell
is_cancelled(val) ==
    IF pd_isna(val) THEN FALSE
    ELSE py_strip(py_str(val)) \notin {"-", "", "nan", "None"}

\* Step 0 (lines 113-131): with a 해제사유발생일 column, the rows is_cancelled
\* marks are dropped into a copy and st.session_state['cancelled_count'] is
\* written; without the column nothing is done.  `count` is the session entry
\* before the call.
filter_cancelled(t, count) ==
    IF StrV("haejesayubalsaengil") \notin t.cols
    THEN [table |-> t, copied |-> FALSE, count |-> count]
    ELSE
    LET cells == Column(t, "haejesayubalsaengil")
        Kept(i) == ~is_cancelled(cells[i])
        kept == SelectSeq([i \in 1..Len(t.rows) |-> i], Kept)
        cancelled_count == Len(t.rows) - Len(kept)
    IN  IF cancelled_count > 0
        THEN [table |-> [cols |-> t.cols,
                         rows |-> [k \in 1..Len(kept) |-> t.rows[kept[k]]]],
              copied |-> TRUE,
              count |-> [set |-> TRUE, n |-> cancelled_count]]
        ELSE [table |-> t, copied |-> FALSE,
              count |-> [set |-> TRUE, n |-> 0]]

\* A step of preprocess_data went through, or raised e on line `line` of
\* app.py, leaving the table so
Done(t) == [exc |-> "", line |-> 0, table |-> t]

Failed(e, line, t) == [exc |-> e, line |-> line, table |-> t]

\* Step 1 converting the amount column whatever its dtype
convert_amount_always(t, dt) ==
    IF StrV("georaegeumaek(manwon)") \notin t.cols
    THEN Failed("KeyError", 134, t)
    ELSE
    LET cells == Column(t, "georaegeumaek(manwon)")
        parsed == [i \in 1..Len(cells) |->
                      py_int_str(py_remove(py_str(cells[i]), ","))]
    IN  IF \E i \in 1..Len(cells) : ~parsed[i].ok
        THEN Failed("ValueError", 135, t)
        ELSE Done(SetColumn(t, "georaegeumaek(manwon)",
                            [i \in 1..Len(cells) |-> IntV(parsed[i].n)]))

\* Step 1 (lines 134-135): an object amount column becomes
\* astype(str).str.replace(',', '').astype(int).  dt is the dtype of the
\* column, which the rows dropped in step 0 do not change.
convert_amount(t, dt) ==
    IF StrV("georaegeumaek(manwon)") \notin t.cols
    THEN Failed("KeyError", 134, t)
    ELSE
    LET cells == Column(t, "georaegeumaek(manwon)")
        parsed == [i \in 1..Len(cells) |->
                      py_int_str(py_remove(py_str(cells[i]), ","))]
    IN  IF dt # "object" THEN Done(t)
        ELSE IF \E i \in 1..Len(cells) : ~parsed[i].ok
        THEN Failed("ValueError", 135, t)
        ELSE Done(SetColumn(t, "georaegeumaek(manwon)",
                            [i \in 1..Len(cells) |-> IntV(parsed[i].n)]))

ZfillWidth == 2

\* (mutant) the day is taken as it is, without zfill
zfill_unpadded(s) == s

\* s.zfill(ZfillWidth): zeros are put in after a sign
zfill(s) ==
    IF Len(s) >= ZfillWidth THEN s
    ELSE IF Len(s) = 1 /\ Head(s) \in {"+", "-"} THEN s \o "0"
    ELSE IF Len(s) = 1 THEN "0" \o s
    ELSE "00"

IsLeap(y) == (y % 4 = 0 /\ y % 100 # 0) \/ y % 400 = 0

DaysIn(y, m) ==
    IF m = 2 THEN (IF IsLeap(y) THEN 29 ELSE 28)
    ELSE IF m \in {4, 6, 9, 11} THEN 30 ELSE 31

\* Character k of s, "" past its end
At(s, k) == IF k >= 1 /\ k <= Len(s) THEN SubSeq(s, k, k) ELSE ""

NoMatch == [len |-> 0, val |-> 0]

Matched(len, val) == [len |-> len, val |-> val]

\* What %d of a strptime format takes at character k: the pattern
\* 3[0-1] | [1-2]\d | 0[1-9] | [1-9] | " "[1-9], whose alternatives exclude
\* one another but for a digit 1 to 3 that no second digit completes
DayMatch(s, k) ==
    LET a == At(s, k)
        b == At(s, k + 1)
    IN  IF a = "3" /\ b \in {"0", "1"} THEN Matched(2, 30 + DigitVal(b))
        ELSE IF a \in {"1", "2"} /\ b \in Digits
            THEN Matched(2, 10 * DigitVal(a) + DigitVal(b))
        ELSE IF a = "0" /\ b \in Digits \ {"0"} THEN Matched(2, DigitVal(b))
        ELSE IF a \in Digits \ {"0"} THEN Matched(1, DigitVal(a))
        ELSE IF a = " " /\ b \in Digits \ {"0"} THEN Matched(2, DigitVal(b))
        ELSE NoMatch

\* What %m can take at character k, in the order the pattern
\* 1[0-2] | 0[1-9] | [1-9] tries it
MonthMatches(s, k) ==
    LET a == At(s, k)
        b == At(s, k + 1)
    IN  (IF a = "1" /\ b \in {"0", "1", "2"}
             THEN <<Matched(2, 10 + DigitVal(b))>>
         ELSE IF a = "0" /\ b \in Digits \ {"0"}
             THEN <<Matched(2, DigitVal(b))>>
         ELSE <<>>)
        \o (IF a \in Digits \ {"0"} THEN <<Matched(1, DigitVal(a))>>
            ELSE <<>>)

\* The texts that stand for a missing date
nat_strings == {"NaT", "nat", "NAT", "nan", "NaN", "NAN"}

\* The first and the last day a Timestamp of nanoseconds holds at midnight
TimestampMin == 16770922

TimestampMax == 22620411

\* pd.to_datetime(s, format='%Y%m%d') for one string, as pandas 2 parses it
\* (the repository pins no version; its start script installs the current
\* one).  A text of eight digits that is a date is read as such.  Any other
\* text goes through the pattern of the format: four digits of year, then
\* %m and %d, each of which also takes a single digit; the month gives way
\* to a shorter alternative when no day follows it, and the match has to
\* end where the text ends.  The date has to exist and lie within
\* Timestamp's range.  n is the date, 0 for NaT.  (The texts "now" and
\* "today", which give the time of the call, are not among the texts here.)
to_datetime(s) ==
    LET months == MonthMatches(s, 5)
        Fits(m) == DayMatch(s, 5 + m.len).len > 0
        fit == SelectSeq(months, Fits)
    IN  IF s = "" \/ s \in nat_strings THEN Ok(0)
        ELSE IF Len(s) < 4 \/ ~AllDigits(SubSeq(s, 1, 4)) \/ fit = <<>>
            THEN Raise("ValueError")
        ELSE
        LET y == IntBodyVal(SubSeq(s, 1, 4), 0)
            m == fit[1]
            d == DayMatch(s, 5 + m.len)
            ymd == y * 10000 + m.val * 100 + d.val
        IN  IF 4 + m.len + d.len # Len(s) THEN Raise("ValueError")
            ELSE IF y = 0 \/ d.val > DaysIn(y, m.val)
                THEN Raise("ValueError")
            ELSE IF ymd < TimestampMin \/ ymd > TimestampMax
                THEN Raise("ValueError")
            ELSE Ok(ymd)

\* The cell of a parsed date
Timestamp(n) == IF n = 0 THEN NaT ELSE DateV(n)

\* Step 2 (lines 138-139): 계약일_str, then 거래일자
derive_date(t) ==
    IF StrV("gyeyakil") \notin t.cols THEN Failed("KeyError", 138, t)
    ELSE
    LET days == Column(t, "gyeyakil")
        day_str == [i \in 1..Len(days) |-> StrV(zfill(py_str(days[i])))]
        t1 == SetColumn(t, "gyeyakil_str", day_str)
    IN  IF StrV("gyeyaknyeonwol") \notin t.cols
        THEN Failed("KeyError", 139, t1)
        ELSE
        LET months == Column(t, "gyeyaknyeonwol")
            dates == [i \in 1..Len(months) |->
                         to_datetime(py_str(months[i]) \o day_str[i].s)]
        IN  IF \E i \in 1..Len(dates) : ~dates[i].ok
            THEN Failed("ValueError", 139, t1)
            ELSE Done(SetColumn(t1, "georaeilja",
                                [i \in 1..Len(dates) |->
                                    Timestamp(dates[i].n)]))

Zero(neg) == IF neg THEN NegFloatV(0, "0") ELSE FloatV(0, "0")

Infinity(neg) == IF neg THEN NegInf ELSE Inf

\* An operand of a quotient as text: an integer as the float it is divided
\* as, a quotient in parentheses
Operand(v) ==
    CASE v.t = "int" -> float_repr(py_float(v.n))
      [] v.t = "float" -> float_repr(v)
      [] v.t = "quotient" -> "(" \o v.s \o ")"

Quotient(a, b, neg) ==
    [t |-> "quotient", s |-> Operand(a) \o " / " \o Operand(b),
     n |-> IF neg THEN 0 - 1 ELSE 1]

\* a / b for two cells of float64 columns: nan when either is missing, when
\* both are zero and when both are infinite; a signed inf on a division by
\* zero; a signed zero when a is zero or b infinite; otherwise the double
\* nearest to the quotient, which is kept as the quotient of its operands
divide(a, b) ==
    LET neg == Negative(a) # Negative(b)
    IN  IF pd_isna(a) \/ pd_isna(b) THEN NaN
        ELSE IF a.t = "inf" THEN (IF b.t = "inf" THEN NaN ELSE Infinity(neg))
        ELSE IF b.t = "inf" THEN Zero(neg)
        ELSE IF IsZero(b) THEN (IF IsZero(a) THEN NaN ELSE Infinity(neg))
        ELSE IF IsZero(a) THEN Zero(neg)
        ELSE Quotient(a, b, neg)

\* series / other on an object column divides cell by cell and leaves the
\* missing cells (None, NaN) missing; a text cannot be divided, a TypeError
Dividable(series) ==
    \A i \in 1..Len(series) : series[i].t \in Numbers \cup {"none"}

\* Step 3 (line 142): 평수 = 전용면적(㎡) / 3.3
derive_pyeong(t) ==
    IF StrV("jeonyongmyeonjeok(m2)") \notin t.cols
    THEN Failed("KeyError", 142, t)
    ELSE
    LET area == Column(t, "jeonyongmyeonjeok(m2)")
    IN  IF ~Dividable(area) THEN Failed("TypeError", 142, t)
        ELSE Done(SetColumn(t, "pyeongsu",
                            [i \in 1..Len(area) |->
                                divide(area[i], FloatV(3, "3"))]))

\* Step 4 (line 145): 평당가(만원) = 거래금액(만원) / 평수.  adt is the dtype of
\* the 전용면적(㎡) column, which 평수 takes over: two float64 columns are
\* divided as doubles, while the cells of an object 평수 are divided as
\* Python floats, where a division by zero is a ZeroDivisionError.
derive_price(t, adt) ==
    LET amount == Column(t, "georaegeumaek(manwon)")
        pyeong == Column(t, "pyeongsu")
    IN  IF adt = "object" /\ \E i \in 1..Len(pyeong) : IsZero(pyeong[i])
        THEN Failed("ZeroDivisionError", 145, t)
        ELSE Done(SetColumn(t, "pyeongdangga(manwon)",
                            [i \in 1..Len(amount) |->
                                divide(amount[i], pyeong[i])]))

\* Steps 2, 3 and 4 after the steps that gave s: a step runs unless an
\* earlier one raised
then_derive_date(s) == IF s.exc # "" THEN s ELSE derive_date(s.table)

then_derive_pyeong(s) == IF s.exc # "" THEN s ELSE derive_pyeong(s.table)

then_derive_price(s, adt) ==
    IF s.exc # "" THEN s ELSE derive_price(s.table, adt)

\* What a call of preprocess_data amounts to, s0 being step 0 and s4 the
\* steps after it: what it returns or raises, the table it worked on as the
\* call left it, whether that table is a copy, and the session entry
Preprocessed(s0, s4) ==
    [kind |-> IF s4.exc = "" THEN "return" ELSE "raise",
     exc |-> s4.exc,
     line |-> s4.line,
     table |-> s4.table,
     copied |-> s0.copied,
     count |-> s0.count]

\* df['거래금액(만원)'].dtype, "" for a table without the column
amount_dtype(t) ==
    IF StrV("georaegeumaek(manwon)") \notin t.cols THEN ""
    ELSE dtype(Column(t, "georaegeumaek(manwon)"))

\* df['전용면적(㎡)'].dtype, "" for a table without the column
area_dtype(t) ==
    IF StrV("jeonyongmyeonjeok(m2)") \notin t.cols THEN ""
    ELSE dtype(Column(t, "jeonyongmyeonjeok(m2)"))

\* Steps 1 to 4 on the table step 0 left, dt and adt being the dtypes of the
\* amount and the area column
AfterFilter(s0, dt, adt) ==
    Preprocessed(s0, then_derive_price(then_derive_pyeong(then_derive_date(
                         convert_amount(s0.table, dt))), adt))

\* preprocess_data(df) with st.session_state['cancelled_count'] = count before
\* the call
preprocess_data(t, count) ==
    AfterFilter(filter_cancelled(frame(t), count), amount_dtype(frame(t)),
                area_dtype(frame(t)))

(***************************************************************************)
(* data_transformer.py: auto_transform                                     *)
(***************************************************************************)
\* The table of a normalisation as auto_transform returns it
AsReturned(r) ==
    [kind |-> r.kind, exc |-> r.exc, same |-> FALSE, table |-> r.table,
     warn |-> r.warn]

\* auto_transform normalising whatever format was detected
dispatch_always(f, t) ==
    IF f.kind = "raise"
    THEN [kind |-> "raise", exc |-> f.value, same |-> FALSE,
          table |-> NoTable, warn |-> <<>>]
    ELSE AsReturned(transform_to_legacy(t))

\* Lines 261-266 of auto_transform, f being what detect_format(df) gave:
\* `same` tells that the value returned is the object passed in
dispatch(f, t) ==
    IF f.kind = "raise"
    THEN [kind |-> "raise", exc |-> f.value, same |-> FALSE,
          table |-> NoTable, warn |-> <<>>]
    ELSE IF f.value = "old"
    THEN [kind |-> "return", exc |-> "", same |-> TRUE, table |-> t,
          warn |-> <<>>]
    ELSE AsReturned(transform_to_legacy(t))

\* auto_transform(df)
auto_transform(t) == dispatch(detect_format(t), t)

(***************************************************************************)
(* Tables in the legacy shape, and the calls of the loading pipeline       *)
(***************************************************************************)
LegacyCell(c) ==
    CASE c = StrV("sigungu") -> StrV("Seoul Eunpyeong-gu Bulgwang-dong")
      [] c = StrV("danjimyeong") -> StrV("A")
      [] c = StrV("jeonyongmyeonjeok(m2)") -> FloatV(84, "97")
      [] c = StrV("gyeyaknyeonwol") -> IntV(202407)
      [] c = StrV("gyeyakil") -> IntV(15)
      [] c = StrV("georaegeumaek(manwon)") -> StrV("85,000")
      [] c = StrV("cheung") -> IntV(3)
      [] c = StrV("geonchuknyeondo") -> IntV(1999)
      [] c = StrV("haejesayubalsaengil") -> StrV("-")
      [] OTHER -> BaseCell(c)

\* Row i of a legacy sheet (its NO is i) with the cells of `cells` put in
LegacyWith(cols, i, cells) ==
    [c \in cols |-> IF c = StrV("NO") THEN IntV(i)
                    ELSE IF c.t = "str" /\ c.s \in DOMAIN cells THEN cells[c.s]
                    ELSE LegacyCell(c)]

\* The tables under `cols` of up to n rows, row i carrying one of `Cells`
LegacyTablesOf(cols, Cells, n) ==
    UNION {{[cols |-> cols,
             rows |-> [i \in 1..k |-> LegacyWith(cols, i, f[i])]] :
               f \in [1..k -> Cells]} : k \in 0..n}

LegacyNoCancel == LEGACY_COLUMNS \ {StrV("haejesayubalsaengil")}

LegacyCancelValues ==
    {StrV("-"), StrV(""), StrV("nan"), StrV("None"), StrV(" - "),
     StrV("-"), StrV("20250301"), IntV(20250301), NaN, None}

LegacyAmountValues ==
    {StrV("85,000"), StrV("abc"), StrV("9,500 "), StrV("9,500"),
     IntV(85000), FloatV(85000, "0"), NaN}

LegacyMonthValues == {IntV(202407), IntV(202402), IntV(20247), IntV(0)}

LegacyDayValues == {IntV(5), IntV(30), NaN}

LegacyAreaValues == {FloatV(59, "4"), IntV(0), StrV("59.4"), NaN}

LegacyCancelTables ==
    LegacyTablesOf(LEGACY_COLUMNS,
                   {"haejesayubalsaengil" :> v : v \in LegacyCancelValues},
                   MaxRows)

LegacyAmountTables ==
    LegacyTablesOf(LegacyNoCancel,
                   {"georaegeumaek(manwon)" :> v : v \in LegacyAmountValues},
                   MaxRows)

LegacyDateTables ==
    LegacyTablesOf(LEGACY_COLUMNS,
                   {("gyeyaknyeonwol" :> a) @@ ("gyeyakil" :> b) :
                       a \in LegacyMonthValues, b \in LegacyDayValues},
                   MaxRows)

LegacyAreaTables ==
    LegacyTablesOf(LEGACY_COLUMNS,
                   {"jeonyongmyeonjeok(m2)" :> v : v \in LegacyAreaValues},
                   MaxRows)

\* Legacy tables without one of the columns preprocess_data reads
LegacyPartialTables ==
    UNION {LegacyTablesOf(LEGACY_COLUMNS \ {StrV(x)}, {<<>>}, 1) :
              x \in {"georaegeumaek(manwon)", "gyeyakil", "gyeyaknyeonwol",
                     "jeonyongmyeonjeok(m2)"}}

\* Legacy tables whose NO column is not 1..N, with and without the new-API
\* signature columns beside the legacy ones
LegacyNumberedTables ==
    UNION {[cols : {cols},
            rows : SeqUpTo({[LegacyWith(cols, 1, <<>>)
                                EXCEPT ![StrV("NO")] = v] :
                               v \in {IntV(7), StrV("x")}}, MaxRows)] :
           cols \in {LEGACY_COLUMNS, LEGACY_COLUMNS \cup NewApiSignature}}

\* New-API tables whose rows vary the amount and the cancellation date
PipelineNewTables ==
    UNION {[cols : {cols},
            rows : SeqUpTo({With(cols, ("dealAmount" :> a) @@ ("cdealDay" :> b)) :
                               a \in {StrV("85,000"), IntV(85000), StrV("abc")},
                               b \in {NaN, StrV("20250301"), StrV("-")}},
                           MaxRows)] :
           cols \in {NEW_API_COLUMNS, NoCancel}}

\* New-API tables whose rows vary the cancellation date, and new-API tables
\* without the cdealDay column
PipelineCancelTables ==
    UNION {[cols : {cols},
            rows : SeqUpTo({With(cols, "cdealDay" :> b) :
                               b \in {NaN, None, StrV(""), StrV("-"),
                                      StrV(" -\n"), StrV("20250301")}},
                           MaxRows)] :
           cols \in {NEW_API_COLUMNS, NoCancel}}

\* Legacy tables whose rows vary the contract month and the cancellation
LegacyDatedCancelTables ==
    LegacyTablesOf(LEGACY_COLUMNS,
                   {("gyeyaknyeonwol" :> a) @@ ("haejesayubalsaengil" :> b) :
                       a \in {IntV(202407), IntV(0)},
                       b \in {StrV("-"), StrV("20250301")}},
                   MaxRows)

\* Legacy tables whose rows vary the area and the cancellation: a text in
\* a cancelled row leaves an object column of numbers behind
LegacyAreaCancelTables ==
    LegacyTablesOf(LEGACY_COLUMNS,
                   {("jeonyongmyeonjeok(m2)" :> a)
                       @@ ("haejesayubalsaengil" :> b) :
                       a \in {IntV(0), StrV("59.4"), None},
                       b \in {StrV("-"), StrV("20250301")}},
                   MaxRows)

\* New-API tables whose rows vary the year and the day of the contract
PipelineDateTables ==
    [cols : {NEW_API_COLUMNS},
     rows : SeqUpTo({With(NEW_API_COLUMNS,
                          ("dealYear" :> a) @@ ("dealDay" :> b)) :
                        a \in {IntV(2024), StrV("20x4")},
                        b \in {IntV(5), StrV("15")}},
                    MaxRows)]

PipelineTables ==
    LegacyCancelTables \cup LegacyAmountTables \cup LegacyDateTables
        \cup LegacyAreaTables \cup LegacyPartialTables
        \cup LegacyNumberedTables \cup PipelineNewTables
        \cup LegacyDatedCancelTables \cup PipelineDateTables
        \cup PipelineCancelTables \cup LegacyAreaCancelTables

InitPipeline ==
    /\ df \in Frames(PipelineTables)
    /\ op = "none"
    /\ result = NoResult
    /\ warnings = <<>>
    /\ prev = NoPrev
    /\ Fresh

\* The call auto_transform(df) that gave r is recorded
Dispatched(r) ==
    /\ result' = [kind |-> r.kind, exc |-> r.exc, same |-> r.same,
                  table |-> r.table]
    /\ warnings' = r.warn

\* auto_transform(df)
AutoTransform ==
    /\ op = "none"
    /\ op' = "auto_transform"
    /\ Dispatched(auto_transform(df))
    /\ arg' = df
    /\ UNCHANGED <<df, prev, region_map, returned, session, memo, cache>>

\* The call preprocess_data(df) that gave r takes effect
Applied(r) ==
    /\ result' = [kind |-> r.kind, exc |-> r.exc, line |-> r.line,
                  table |-> IF r.kind = "return" THEN r.table ELSE NoTable]
    /\ df' = IF r.copied THEN df ELSE r.table
    /\ session' = r.count

\* preprocess_data(df): the session entry is written, and when no row was
\* dropped the columns are assigned in the caller's table itself
PreprocessData ==
    /\ op = "none"
    /\ op' = "preprocess_data"
    /\ Applied(preprocess_data(df, session))
    /\ warnings' = <<>>
    /\ arg' = df
    /\ UNCHANGED <<prev, region_map, returned, memo, cache>>

\* The caller passes the table it got from the normalisation on; prev keeps
\* which call made that table, and of what
HandOver ==
    /\ op \in {"transform_to_legacy", "auto_transform"}
    /\ result.kind = "return"
    /\ df' = result.table
    /\ op' = "none"
    /\ result' = NoResult
    /\ warnings' = <<>>
    /\ prev' = [set |-> TRUE, cols |-> arg.cols, nrows |-> Len(arg.rows),
                outcome |-> [kind |-> "handed over", value |-> op]]
    /\ UNCHANGED rest

\* The exceptions of pd.read_excel: a file that is no workbook ("Excel file
\* format cannot be determined"), a damaged .xlsx archive, and, for a path,
\* a file that is not there
UploadErrors == {"ValueError", "BadZipFile"}

PathErrors == UploadErrors \cup {"FileNotFoundError"}

\* What pd.read_excel(file, sheet_name=0) may give, t being the first sheet
\* when the file holds one: the table of that sheet, or one of the
\* exceptions it raises on a file it cannot read
Reads(t, errors) ==
    {[exc |-> "", table |-> t]}
    \cup {[exc |-> e, table |-> NoTable] : e \in errors}

\* The body the two loaders share, `read` being what pd.read_excel gave and
\* `line` the line of the raise statement: when the read failed, st.error
\* shows the message and the exception is raised again, preprocess_data is
\* not called and the session entry stays as it was; otherwise
\* preprocess_data runs on the table read.  Recorded are the functions of the
\* core called on the way, in order, the table preprocess_data received, the
\* exception st.error showed, and what came of the call.
read_and_preprocess(read, count, line) ==
    IF read.exc # ""
    THEN [stages |-> <<>>,
          received |-> NoTable,
          st_error |-> read.exc,
          outcome |-> [kind |-> "raise", exc |-> read.exc, line |-> line,
                       table |-> NoTable, copied |-> FALSE, count |-> count]]
    ELSE [stages |-> <<"preprocess_data">>,
          received |-> read.table,
          st_error |-> "",
          outcome |-> preprocess_data(read.table, count)]

\* load_data_from_upload(uploaded_file) (lines 149-158)
load_data_from_upload(read, count) == read_and_preprocess(read, count, 155)

\* What a load that found its table in the cache amounts to: the table kept
\* is returned, nothing is read or run, the session entry stays as it was
FromCache(entry, count) ==
    [stages |-> <<>>,
     received |-> NoTable,
     st_error |-> "",
     outcome |-> [kind |-> "return", exc |-> "", line |-> 0,
                  table |-> entry.table, copied |-> TRUE, count |-> count]]

\* load_data_from_path(filepath) (lines 96-106) under @st.cache_data, `read`
\* being what pd.read_excel gives for the file at the path now and `stored`
\* the cache: for a path loaded before, the body does not run and the file
\* is not read; otherwise the body runs
load_data_from_path(filepath, read, count, stored) ==
    IF stored[filepath].set THEN FromCache(stored[filepath], count)
    ELSE read_and_preprocess(read, count, 103)

\* The cache after the call load_data_from_path(filepath) that gave r: a
\* table returned by the body is kept under the path, an exception is not
cached(filepath, r, stored) ==
    IF ~stored[filepath].set /\ r.outcome.kind = "return"
    THEN [stored EXCEPT ![filepath] = [set |-> TRUE,
                                       table |-> r.outcome.table]]
    ELSE stored

\* The load that gave r is recorded.  The frame read from the sheet is local
\* to the load: df, the sheet, stays as it is.
Loaded(r) ==
    /\ result' = [kind |-> r.outcome.kind, exc |-> r.outcome.exc,
                  line |-> r.outcome.line,
                  table |-> IF r.outcome.kind = "return" THEN r.outcome.table
                            ELSE NoTable,
                  stages |-> r.stages, received |-> r.received,
                  st_error |-> r.st_error]
    /\ session' = r.outcome.count

\* An uploaded file is loaded; arg is the table read from it, if any
LoadDataFromUpload ==
    /\ op = "none"
    /\ op' = "load_data_from_upload"
    /\ \E read \in Reads(df, UploadErrors) :
          /\ Loaded(load_data_from_upload(read, session))
          /\ arg' = read.table
    /\ warnings' = <<>>
    /\ UNCHANGED <<df, prev, region_map, returned, memo, cache>>

\* The file at a path is loaded; prev keeps the path and whether the cache
\* had it; arg is the table the file holds, if any
LoadDataFromPath ==
    /\ op = "none"
    /\ op' = "load_data_from_path"
    /\ \E filepath \in Paths, read \in Reads(df, PathErrors) :
          /\ Loaded(load_data_from_path(filepath, read, session, cache))
          /\ cache' = cached(filepath,
                             load_data_from_path(filepath, read, session,
                                                 cache),
                             cache)
          /\ prev' = [set |-> TRUE, cols |-> df.cols, nrows |-> Len(df.rows),
                      outcome |-> [kind |-> IF cache[filepath].set
                                            THEN "cached" ELSE "loaded",
                                   value |-> filepath]]
          /\ arg' = read.table
    /\ warnings' = <<>>
    /\ UNCHANGED <<df, region_map, returned, memo>>

NextPipeline ==
    \/ AutoTransform
    \/ TransformToLegacy
    \/ HandOver
    \/ PreprocessData

SpecPipeline == InitPipeline /\ [][NextPipeline]_vars

(***************************************************************************)
(* Properties of the loading pipeline                                      *)
(***************************************************************************)
Dispatching == op = "auto_transform"

Prepared == op = "preprocess_data"

CancelLabel == StrV("haejesayubalsaengil")

AmountLabel == StrV("georaegeumaek(manwon)")

\* C12: auto_transform on a table that detect_format classifies as legacy
\* returns that very table: same columns, same rows, same values, its NO
\* column as it was; and transform_to_legacy is not run (nothing is raised
\* for absent new-API columns, no warning is emitted).
C12_LegacyPassThrough ==
    (Dispatching /\ detect_format(arg) = Returned("old")) =>
        /\ result.kind = "return"
        /\ result.same
        /\ result.table = arg
        /\ df = arg
        /\ warnings = <<>>

\* A legacy table that also carries the new-API signature, with NO = 7 in
\* its only row, came back as it was
C12_Witness ==
    /\ Dispatching
    /\ NewApiSignature \subseteq arg.cols
    /\ LegacySignature \subseteq arg.cols
    /\ Len(arg.rows) = 1
    /\ arg.rows[1][StrV("NO")] = IntV(7)
    /\ result.kind = "return"
    /\ result.table.rows[1][StrV("NO")] = IntV(7)

\* A cell of 해제사유발생일 that marks a cancelled transaction: not missing,
\* and after trimming none of "-", "", "nan", "None"
MarksCancelled(v) ==
    /\ v.t \notin {"nan", "none"}
    /\ py_strip(py_str(v)) \notin {"-", "", "nan", "None"}

Live(row) == ~MarksCancelled(row[CancelLabel])

\* The rows of the table passed in that are not cancelled, in their order
LiveRows == IF CancelLabel \in arg.cols THEN SelectSeq(arg.rows, Live)
            ELSE arg.rows

\* C16: the table preprocess_data returns holds exactly the rows that are
\* not cancelled, in their original order, with the cells they had (the
\* amount column aside, which step 1 converts).
C16_CancelledRemoved ==
    (Prepared /\ CancelLabel \in arg.cols /\ result.kind = "return") =>
        /\ Len(result.table.rows) = Len(LiveRows)
        /\ \A k \in 1..Len(LiveRows) :
              \A c \in arg.cols \ {AmountLabel} :
                 result.table.rows[k][c] = LiveRows[k][c]

\* Of two rows the first was cancelled on 20250301 and the second carries
\* " - ": the second alone came back
C16_Witness ==
    /\ Prepared
    /\ Len(arg.rows) = 2
    /\ CancelLabel \in arg.cols
    /\ arg.rows[1][CancelLabel] = StrV("20250301")
    /\ arg.rows[2][CancelLabel] = StrV(" - ")
    /\ result.kind = "return"
    /\ Len(result.table.rows) = 1
    /\ result.table.rows[1][StrV("NO")] = IntV(2)

\* The amount cells of the table passed in
Amounts == [i \in 1..Len(arg.rows) |-> arg.rows[i][AmountLabel]]

\* A text that int() accepts once the separators are removed
ParsesAsAmount(v) == v.t = "str" /\ py_int_str(py_remove(v.s, ",")).ok

\* C19: when a text amount of a legacy table is no integer, preprocess_data
\* does not raise: the amount becomes 0 and every live row is returned.
C19_AmountDegrades ==
    (/\ Prepared
     /\ AmountLabel \in arg.cols
     /\ \E i \in 1..Len(arg.rows) :
           Amounts[i].t = "str" /\ ~ParsesAsAmount(Amounts[i])) =>
        /\ result.kind = "return"
        /\ Len(result.table.rows) = Len(LiveRows)
        /\ \A k \in 1..Len(LiveRows) :
              (/\ LiveRows[k][AmountLabel].t = "str"
               /\ ~ParsesAsAmount(LiveRows[k][AmountLabel])) =>
                  result.table.rows[k][AmountLabel] = IntV(0)

\* The amount column of the table passed in holds numbers only
NumericAmounts ==
    /\ Amounts # <<>>
    /\ \A i \in 1..Len(Amounts) : Amounts[i].t \in {"int", "float", "nan"}

\* The amount column holds texts, each an integer once its separators go
TextAmounts ==
    /\ Amounts # <<>>
    /\ \A i \in 1..Len(Amounts) : ParsesAsAmount(Amounts[i])

\* C20: step 1 converts a text amount column, by removing the separators and
\* parsing to an integer, and leaves a numeric amount column with the values
\* it had; the amounts a normalisation produced are numeric, so that a
\* normalise-then-preprocess run strips the separators once.
C20_AmountOnce ==
    (Prepared /\ AmountLabel \in arg.cols) =>
        /\ (NumericAmounts \/ TextAmounts) => result.line # 135
        /\ (NumericAmounts /\ result.kind = "return") =>
              \A k \in 1..Len(LiveRows) :
                 result.table.rows[k][AmountLabel] = LiveRows[k][AmountLabel]
        /\ (TextAmounts /\ result.kind = "return") =>
              \A k \in 1..Len(LiveRows) :
                 result.table.rows[k][AmountLabel] =
                    IntV(py_int_str(py_remove(LiveRows[k][AmountLabel].s,
                                              ",")).n)
        /\ (memo.set /\ memo.output.kind = "return"
            /\ arg = memo.output.table /\ arg.rows # <<>>) =>
              /\ NumericAmounts
              /\ result.kind = "return" =>
                    \A k \in 1..Len(LiveRows) :
                       result.table.rows[k][AmountLabel] =
                          LiveRows[k][AmountLabel]

\* The table a normalisation made of dealAmount "85,000" was preprocessed:
\* its amount, 85000, is the amount returned
C20_Witness ==
    /\ Prepared
    /\ memo.set
    /\ memo.output.kind = "return"
    /\ arg = memo.output.table
    /\ Len(memo.input.rows) = 1
    /\ memo.input.rows[1][StrV("dealAmount")] = StrV("85,000")
    /\ result.kind = "return"
    /\ Len(result.table.rows) = 1
    /\ result.table.rows[1][AmountLabel] = IntV(85000)

(***************************************************************************)
(* One session of the dashboard: tables are loaded one after another and   *)
(* the calls follow each other in any order                                *)
(***************************************************************************)
SessionTables ==
    LegacyTablesOf(LEGACY_COLUMNS,
                   {"haejesayubalsaengil" :> v :
                       v \in {StrV("-"), StrV("20250301")}}, MaxRows)
    \cup LegacyTablesOf(LegacyNoCancel,
                        {"georaegeumaek(manwon)" :> v :
                            v \in {StrV("85,000"), StrV("abc")}}, 1)
    \cup [cols : {NEW_API_COLUMNS},
          rows : SeqUpTo({With(NEW_API_COLUMNS,
                               ("sggCd" :> a) @@ ("cdealDay" :> b)) :
                             a \in {StrV("11380"), StrV("99999")},
                             b \in {NaN, StrV("20250301")}}, 1)]

InitSession ==
    /\ df \in Frames(SessionTables)
    /\ op = "none"
    /\ result = NoResult
    /\ warnings = <<>>
    /\ prev = NoPrev
    /\ Fresh

\* get_sigungu_name on a known or an unknown code, in a session
LookupInSession == Lookup({StrV("11380"), StrV("99999")})

\* Another file is loaded, in the same session
NextTable ==
    /\ op # "none"
    /\ df' \in Frames(SessionTables)
    /\ op' = "none"
    /\ result' = NoResult
    /\ warnings' = <<>>
    /\ arg' = NoTable
    /\ UNCHANGED <<prev, region_map, returned, session, memo, cache>>

NextSession ==
    \/ PreprocessData
    \/ TransformToLegacy
    \/ AutoTransform
    \/ LookupInSession
    \/ Proceed
    \/ NextTable

SpecSession == InitSession /\ [][NextSession]_vars

(***************************************************************************)
(* Calls of the core and of the registry in one process, in any order:     *)
(* between two normalisations other tables are normalised and preprocessed,*)
(* codes are looked up, and callers change the mappings                    *)
(* get_all_region_codes gave them.                                         *)
(***************************************************************************)
CallTables ==
    [cols : {NEW_API_COLUMNS},
     rows : SeqUpTo({With(NEW_API_COLUMNS, "sggCd" :> a) :
                        a \in {StrV("11380"), StrV("99999")}}, MaxRows)]
    \cup LegacyTablesOf(LEGACY_COLUMNS,
                        {"haejesayubalsaengil" :> v :
                            v \in {StrV("-"), StrV("20250301")}}, 1)

InitCalls ==
    /\ df \in Frames(CallTables)
    /\ op = "none"
    /\ result = NoResult
    /\ warnings = <<>>
    /\ prev = NoPrev
    /\ Fresh

\* The caller takes up another table
AnotherTable ==
    /\ op # "none"
    /\ df' \in Frames(CallTables)
    /\ op' = "none"
    /\ result' = NoResult
    /\ warnings' = <<>>
    /\ arg' = NoTable
    /\ UNCHANGED <<prev, region_map, returned, session, memo, cache>>

NextCalls ==
    \/ TransformToLegacy
    \/ AutoTransform
    \/ PreprocessData
    \/ LookupInSession
    \/ GetAllRegionCodes
    \/ CallerEdits
    \/ Proceed
    \/ AnotherTable

SpecCalls == InitCalls /\ [][NextCalls]_vars

(***************************************************************************)
(* Loads that follow each other in one process: sheets are uploaded and    *)
(* read from paths, and the sheet at a path may be another one at the next *)
(* load.                                                                   *)
(***************************************************************************)
LoadTables == SessionTables \cup LegacyPartialTables

InitLoad ==
    /\ df \in Frames(LoadTables)
    /\ op = "none"
    /\ result = NoResult
    /\ warnings = <<>>
    /\ prev = NoPrev
    /\ Fresh

\* The dashboard is done with the table; the next sheet is at hand
NextSheet ==
    /\ op # "none"
    /\ df' \in Frames(LoadTables)
    /\ op' = "none"
    /\ result' = NoResult
    /\ warnings' = <<>>
    /\ arg' = NoTable
    /\ prev' = NoPrev
    /\ UNCHANGED <<region_map, returned, session, memo, cache>>

NextLoad == LoadDataFromUpload \/ LoadDataFromPath \/ NextSheet

SpecLoad == InitLoad /\ [][NextLoad]_vars

(***************************************************************************)
(* Properties of a session                                                 *)
(***************************************************************************)
\* C11: transform_to_legacy leaves the table it is given as it was, and a
\* call on a table equal to the one of the first call of the process returns
\* what the first call returned (every column, NO included, or the same
\* exception), whatever preprocess_data, auto_transform, get_sigungu_name and
\* other transform_to_legacy calls ran before or between the two and whatever
\* callers did to the mappings get_all_region_codes gave them; nothing of an
\* earlier call shows in a table returned: NO starts at 1 and the region
\* names are those of the registry as the module defines it.
C11_Deterministic ==
    Transformed =>
        /\ df = arg
        /\ (memo.set /\ arg = memo.input) => result = memo.output
        /\ result.kind = "return" =>
              \A i \in Rows :
                  /\ Out(i, "NO") = IntV(i)
                  /\ Out(i, "sigungu") =
                        StrV(FreshName(Cell(i, "sggCd")) \o " "
                             \o py_strip(py_str(Cell(i, "umdNm"))))

\* The second normalisation of a two-row table, after preprocess_data ran
\* and a caller took code 11380 out of the mapping it holds
C11_Witness ==
    /\ Transformed
    /\ memo.again
    /\ arg = memo.input
    /\ session.set
    /\ returned.held
    /\ "11380" \notin DOMAIN returned.map
    /\ result.kind = "return"
    /\ Len(result.table.rows) = 2
    /\ Cell(1, "sggCd") = StrV("11380")
    /\ Out(2, "NO") = IntV(2)

\* st.session_state.get('cancelled_count', 0), what main reads
Observed == IF session.set THEN session.n ELSE 0

\* C17: after every preprocess_data call the cancelled count the caller
\* reads is the number of rows that call removed, 0 for a table without a
\* 해제사유발생일 column, whatever calls came before.
C17_CountIsThisCalls ==
    Prepared => Observed = Len(arg.rows) - Len(LiveRows)

\* C18: on a legacy-shaped table without a cancelled transaction
\* preprocess_data does not raise and the cancelled count read is 0.
C18_NoCancelled ==
    (/\ Prepared
     /\ LegacyNoCancel \subseteq arg.cols
     /\ Len(LiveRows) = Len(arg.rows)) =>
        /\ result.kind = "return"
        /\ Observed = 0

(***************************************************************************)
(* Dates                                                                   *)
(***************************************************************************)
MonthLabel == StrV("gyeyaknyeonwol")

DayLabel == StrV("gyeyakil")

DateLabel == StrV("georaeilja")

\* The text of a row's 계약년월 followed by its 계약일, a single character of
\* day preceded by a zero
DateText(row) ==
    LET day == py_str(row[DayLabel])
    IN  py_str(row[MonthLabel]) \o (IF Len(day) = 1 THEN "0" \o day ELSE day)

\* Eight digits YYYYMMDD that name a day of the calendar
IsCalendarDate(s) ==
    /\ Len(s) = 8
    /\ AllDigits(s)
    /\ ((IntBodyVal(s, 0) \div 100) % 100) \in 1..12
    /\ (IntBodyVal(s, 0) % 100) \in
          1..DaysIn(IntBodyVal(s, 0) \div 10000,
                    (IntBodyVal(s, 0) \div 100) % 100)

\* Step 1 of preprocess_data has nothing to refuse in the table passed in
AmountsConvert ==
    /\ AmountLabel \in arg.cols
    /\ NumericAmounts \/ TextAmounts \/ Amounts = <<>>

\* C21: when a row that is not cancelled has a 계약년월 and zero-padded 계약일
\* that together are no calendar date YYYYMMDD, preprocess_data raises the
\* date-parse error (ValueError, line 139) for the whole table and returns
\* no table, whatever the other rows hold.
C21_DateAborts ==
    (/\ Prepared
     /\ {MonthLabel, DayLabel} \subseteq arg.cols
     /\ AmountsConvert
     /\ \E k \in 1..Len(LiveRows) : ~IsCalendarDate(DateText(LiveRows[k]))) =>
        /\ result.kind = "raise"
        /\ result.exc = "ValueError"
        /\ result.line = 139
        /\ result.table = NoTable

(***************************************************************************)
(* Loading a sheet                                                         *)
(***************************************************************************)
\* A load of a file that holds a sheet
LoadedSheet ==
    /\ op \in {"load_data_from_upload", "load_data_from_path"}
    /\ arg # NoTable

\* C22: a load runs detect_format, then transform_to_legacy when the sheet
\* is classified new-API, then preprocess_data: a new-API sheet reaches
\* preprocess_data in legacy shape and a sheet of unknown shape does not
\* reach it.
C22_LoadStages ==
    LoadedSheet =>
        /\ detect_format(arg) = Returned("new") =>
              /\ result.stages = <<"detect_format", "transform_to_legacy",
                                   "preprocess_data">>
              /\ LegacySignature \subseteq result.received.cols
        /\ detect_format(arg) = Returned("old") =>
              result.stages = <<"detect_format", "preprocess_data">>
        /\ detect_format(arg).kind = "raise" =>
              result.stages = <<"detect_format">>

(***************************************************************************)
(* Runs that follow each other in one session                              *)
(***************************************************************************)
\* The call of preprocess_data just made gave what the call a gives, a being
\* the same call in a session where nothing ran before
SameAsAlone(a) ==
    /\ result.kind = a.kind
    /\ result.exc = a.exc
    /\ result.table = (IF a.kind = "return" THEN a.table ELSE NoTable)
    /\ Observed = (IF a.count.set THEN a.count.n ELSE 0)

\* C23: the core shares no state between invocations: whatever runs came
\* before in the session, a run returns the table and shows the cancelled
\* count it would return and show had it executed alone.
C23_RunsIndependent ==
    Prepared => SameAsAlone(preprocess_data(arg, NoCount))

(***************************************************************************)
(* The warnings of a normalisation, row by row                             *)
(***************************************************************************)
\* The number of warnings emitted while row i was processed
RowWarnings(i) == Cardinality({k \in 1..Len(warnings) : warnings[k].row = i})

Ones(b) == IF b THEN 1 ELSE 0

\* dealAmount of row i is no integer once separators and blanks are removed;
\* a missing amount is none
AmountFails(i) == ~AmountParses(Cell(i, "dealAmount"))

\* int() refuses dealYear or dealMonth of row i
YearMonthFails(i) ==
    ~py_int(Cell(i, "dealYear")).ok \/ ~py_int(Cell(i, "dealMonth")).ok

\* excluUseAr of row i is present and is degraded to NaN
AreaDegraded(i) ==
    /\ pd_notna(Cell(i, "excluUseAr"))
    /\ to_numeric_cell(Cell(i, "excluUseAr")) = NaN

\* sggCd of row i is a value whose code string the registry does not have
RegionUnknown(i) ==
    /\ Cell(i, "sggCd") # None
    /\ Coerced(Cell(i, "sggCd")) \notin DOMAIN REGION_CODE_MAP

\* C24: transform_to_legacy emits exactly one warning for each row-level
\* coercion failure (amount unparsable or missing, year/month unparsable,
\* area degraded to NaN, region code unknown) and none for a row whose
\* fields all coerce.
C24_OneWarningPerFailure ==
    Normalized =>
        \A i \in Rows :
           RowWarnings(i) = Ones(AmountFails(i)) + Ones(YearMonthFails(i))
                            + Ones(AreaDegraded(i)) + Ones(RegionUnknown(i))

(***************************************************************************)
(* The region name of a normalised row                                     *)
(***************************************************************************)
\* C25: every row transform_to_legacy produces has a 시군구 that is a
\* non-empty string, whatever sggCd and umdNm hold, a null region code with
\* a missing dong name included.
C25_SigunguNonEmpty ==
    Completed =>
        \A i \in Rows :
           /\ Out(i, "sigungu").t = "str"
           /\ Out(i, "sigungu").s # ""

(***************************************************************************)
(* The date of a retained row                                              *)
(***************************************************************************)
DayTextLabel == StrV("gyeyakil_str")

\* 계약년월 of the row reads as six digits YYYYMM and 계약일 as one or two
\* digits, and they name a day of the calendar
ValidContractDay(row) ==
    /\ Len(py_str(row[MonthLabel])) = 6
    /\ AllDigits(py_str(row[MonthLabel]))
    /\ Len(py_str(row[DayLabel])) \in {1, 2}
    /\ AllDigits(py_str(row[DayLabel]))
    /\ IsCalendarDate(DateText(row))

\* C26: for every retained row whose 계약년월 is YYYYMM with a month 1..12 and
\* whose 계약일 is a valid day of that month in one or two digits, 거래일자 is
\* that calendar date and 계약일_str is the day in two digits, so that the
\* text parsed has eight digits; rows that are all of this kind never make
\* the date step raise.
C26_DateDerived ==
    (Prepared /\ {MonthLabel, DayLabel} \subseteq arg.cols) =>
        /\ result.kind = "return" =>
              \A k \in 1..Len(LiveRows) :
                 ValidContractDay(LiveRows[k]) =>
                    /\ result.table.rows[k][DateLabel] =
                          DateV(IntBodyVal(DateText(LiveRows[k]), 0))
                    /\ Len(result.table.rows[k][DayTextLabel].s) = 2
                    /\ Len(py_str(LiveRows[k][MonthLabel])
                           \o result.table.rows[k][DayTextLabel].s) = 8
        /\ (\A k \in 1..Len(LiveRows) : ValidContractDay(LiveRows[k])) =>
              result.line # 139

\* Days 5 and 30 of July 2024: the dates are 2024-07-05 and 2024-07-30
C26_Witness ==
    /\ Prepared
    /\ Len(arg.rows) = 2
    /\ arg.rows[1][MonthLabel] = IntV(202407)
    /\ arg.rows[1][DayLabel] = IntV(5)
    /\ arg.rows[2][MonthLabel] = IntV(202407)
    /\ arg.rows[2][DayLabel] = IntV(30)
    /\ result.kind = "return"
    /\ result.table.rows[1][DayTextLabel] = StrV("05")
    /\ result.table.rows[1][DateLabel] = DateV(20240705)
    /\ result.table.rows[2][DateLabel] = DateV(20240730)

(***************************************************************************)
(* auto_transform applied twice                                            *)
(***************************************************************************)
\* The table at hand is what an auto_transform call returned
FromAutoTransform ==
    /\ prev.set
    /\ prev.outcome.kind = "handed over"
    /\ prev.outcome.value = "auto_transform"

\* C27: what auto_transform returns carries the three legacy signature
\* columns, and auto_transform of it is that very table: classified legacy,
\* not normalised again (nothing raised, no warning, NO as it was).
C27_Idempotent ==
    Dispatching =>
        /\ result.kind = "return" => LegacySignature \subseteq result.table.cols
        /\ FromAutoTransform =>
              /\ result.kind = "return"
              /\ result.same
              /\ result.table = arg
              /\ df = arg
              /\ warnings = <<>>

\* A new-API table of two rows was normalised by auto_transform, and the
\* table that came out was given to auto_transform again
C27_Witness ==
    /\ Dispatching
    /\ FromAutoTransform
    /\ prev.cols = NEW_API_COLUMNS
    /\ prev.nrows = 2
    /\ arg.cols = LEGACY_COLUMNS
    /\ Len(arg.rows) = 2
    /\ result.same
    /\ result.table.rows[2][StrV("NO")] = IntV(2)

(***************************************************************************)
(* Cancellations from the source sheet to the preprocessed table           *)
(***************************************************************************)
\* The table preprocess_data was given is what transform_to_legacy made of
\* memo.input
NormalisedThenPrepared ==
    /\ Prepared
    /\ memo.set
    /\ memo.output.kind = "return"
    /\ prev.set
    /\ prev.outcome.kind = "handed over"
    /\ prev.outcome.value = "transform_to_legacy"
    /\ arg = memo.output.table

\* Row i of the source sheet carries a cancellation: its cdealDay is present
\* and, trimmed, is none of "-", "", "nan", "None"
SourceCancelled(i) ==
    /\ StrV("cdealDay") \in memo.input.cols
    /\ pd_notna(memo.input.rows[i][StrV("cdealDay")])
    /\ py_strip(py_str(memo.input.rows[i][StrV("cdealDay")]))
          \notin {"-", "", "nan", "None"}

\* The numbers of the source rows without a cancellation, in order
SourceLive ==
    SelectSeq([i \in 1..Len(memo.input.rows) |-> i],
              LAMBDA i : ~SourceCancelled(i))

\* C28: from transform_to_legacy to preprocess_data, a row is removed as
\* cancelled exactly when its source cdealDay is present and, trimmed, none
\* of "-", "", "nan", "None"; a row with a missing cdealDay, and every row
\* of a sheet without the column, stays; the count reported is the number
\* of cancelled source rows.  The rows are those of a call that returns.
C28_EndToEndCancellation ==
    NormalisedThenPrepared =>
        /\ session.set
        /\ session.n = Len(memo.input.rows) - Len(SourceLive)
        /\ result.kind = "return" =>
              /\ Len(result.table.rows) = Len(SourceLive)
              /\ \A k \in 1..Len(SourceLive) :
                    result.table.rows[k][StrV("NO")] = IntV(SourceLive[k])

\* Of two source rows the first has no cdealDay and the second 20250301:
\* the first alone is returned and the count is 1
C28_Witness ==
    /\ NormalisedThenPrepared
    /\ StrV("cdealDay") \in memo.input.cols
    /\ Len(memo.input.rows) = 2
    /\ memo.input.rows[1][StrV("cdealDay")] = NaN
    /\ memo.input.rows[2][StrV("cdealDay")] = StrV("20250301")
    /\ arg.rows[1][CancelLabel] = StrV("")
    /\ result.kind = "return"
    /\ Len(result.table.rows) = 1
    /\ result.table.rows[1][StrV("NO")] = IntV(1)
    /\ session = [set |-> TRUE, n |-> 1]

\* A sheet without the cdealDay column: both rows are returned, the count
\* written is 0
C28_WitnessNoColumn ==
    /\ NormalisedThenPrepared
    /\ StrV("cdealDay") \notin memo.input.cols
    /\ Len(memo.input.rows) = 2
    /\ result.kind = "return"
    /\ Len(result.table.rows) = 2
    /\ session = [set |-> TRUE, n |-> 0]

(***************************************************************************)
(* The caller's table after preprocess_data                                *)
(***************************************************************************)
\* C29: preprocess_data leaves the table object its caller passed as it
\* was, with or without cancelled rows: no column added, no amount
\* rewritten, no row removed.
C29_CallerTableUnchanged ==
    Prepared => df = arg

(***************************************************************************)
(* A numeric dealAmount                                                    *)
(***************************************************************************)
\* The cell is a number with an integral value
IntegralNumber(v) ==
    \/ v.t = "int"
    \/ v.t = "float" /\ py_remove(FracDigits(v), "0") = ""

\* C30: a dealAmount that is already a number with integral value v (an
\* integer, or a float such as 85000.0) gives the amount v.
C30_NumericAmount ==
    Completed =>
        \A i \in Rows :
           IntegralNumber(Cell(i, "dealAmount")) =>
              Out(i, "georaegeumaek(manwon)") = IntV(Cell(i, "dealAmount").n)

=============================================================================
